---------------------------- MODULE Spec2Model ----------------------------
(***************************************************************************)
(* A model of pdftemplateV2: the field registry and placement gestures of  *)
(* App / PDFViewer, the template store, and the fill engine of PDFFiller   *)
(* (wrapText, fillPDF, fillAndDownloadPDF, validateFormData).              *)
(*                                                                         *)
(* Text is a sequence of one-character strings.  Lengths measured by the   *)
(* font are integers: the advance of a glyph at font size 1 times the font *)
(* size.                                                                   *)
(***************************************************************************)
EXTENDS Integers, Sequences, FiniteSets, TLC

\* ------------------------------------------------------------------ bounds
\* Longest text handed to wrapText.
MaxTextLen == 4
\* Largest maxWidth handed to wrapText (the smallest is -1).
MaxWrapWidth == 6
\* How far below 0 the model follows cutIndex.
MaxUnderrun == 2
\* Most fields the registry holds, and most templates the store holds.
MaxFields == 2
MaxTemplates == 1
\* Last reading of the clock (Date.now()); the first is 1.
MaxClock == 2
\* How far a resize handle is pulled in, in all.
MaxShrink == 6
\* The arrow keys are followed for fields at most this far right of and below
\* the page's corner.
MaxNudged == 12
\* While the toolbar's dialog is followed, the arrow keys take a field at most
\* this far from where the registry first had it.
MaxKeyed == 2
\* The parts of a pixel a pointer position is measured in, and how many of
\* them a position may be off after a division and a multiplication by the
\* scale: each of the two operations is cut to a whole part.
Unit == 1000
Tolerance == 2

\* ------------------------------------------------------------ text helpers
NL == "\n"
SP == " "
Chars == {"i", "W", SP, NL}

Texts(n) == UNION {[1..k -> Chars] : k \in 0..n}

Min(a, b) == IF a < b THEN a ELSE b
Max(a, b) == IF a > b THEN a ELSE b
Abs(a) == IF a < 0 THEN -a ELSE a

\* String.prototype.substring(a, b): arguments below 0 count as 0, arguments
\* above the length as the length.
Substring(s, a, b) ==
  LET lo == Max(0, Min(a, Len(s)))
      hi == Max(0, Min(b, Len(s)))
  IN  SubSeq(s, Min(lo, hi) + 1, Max(lo, hi))

\* String.prototype.split(sep) for a one-character separator: the pieces
\* between the separators, empty pieces included; one piece for "".
RECURSIVE SplitFrom(_, _, _)
SplitFrom(s, sep, piece) ==
  IF s = <<>> THEN <<piece>>
  ELSE IF Head(s) = sep THEN <<piece>> \o SplitFrom(Tail(s), sep, <<>>)
  ELSE SplitFrom(Tail(s), sep, Append(piece, Head(s)))

\* A split that knows the space as its only separator.
SplitAtSpaces(s, sep) == SplitFrom(s, SP, <<>>)

Split(s, sep) == SplitFrom(s, sep, <<>>)

IsWhite(c) == c \in {SP, NL}

RECURSIVE TrimStart(_)
TrimStart(s) ==
  IF s # <<>> /\ IsWhite(Head(s)) THEN TrimStart(Tail(s)) ELSE s

RECURSIVE TrimEnd(_)
TrimEnd(s) ==
  IF s # <<>> /\ IsWhite(s[Len(s)]) THEN TrimEnd(SubSeq(s, 1, Len(s) - 1)) ELSE s

\* String.prototype.trim()
Trim(s) == TrimEnd(TrimStart(s))

\* ------------------------------------------------------------ font metrics
\* The advance of one glyph at font size 1 (the embedded font's table).
GlyphAdvance(c) ==
  CASE c = "i" -> 1
    [] c = "W" -> 3
    [] c = SP -> 1
    [] OTHER -> 1

RECURSIVE SumAdvance(_)
SumAdvance(s) == IF s = <<>> THEN 0 ELSE GlyphAdvance(Head(s)) + SumAdvance(Tail(s))

\* font.widthOfTextAtSize(text, fontSize)
widthOfTextAtSize(s, fontSize) == SumAdvance(s) * fontSize

\* ------------------------------------------------------------ JS values
\* An optional value (null or undefined, or a value) is a sequence of length
\* 0 or 1; the null of an id cell is a string of its own.
None == <<>>
Some(v) == <<v>>
Null == "null"

\* ------------------------------------------------------------------- state
VARIABLES
  \* wrapText(text, maxWidth, fontSize): its arguments, its locals and where
  \* it stands
  text, maxWidth, fontSize, paragraphs, words, line, allLines, tempWord,
  cutIndex, wpc,
  \* App: its useState cells, the browser's localStorage entry 'pdfTemplates',
  \* the clock, the arguments of the fill in flight (None when there is none)
  pdfFile, fields, selectedFieldId, formData, templates, isProcessing,
  notification, movable, localStorage, now, fillJob,
  \* PDFViewer: its useState cells
  numPages, pageNumber, scale, isAddingField, dragStart, newField, isDragging,
  dragFieldId, dragOffset, isMobile, editingFieldId, editingLabel,
  \* the field editor (FormBuilder, FloatingToolbar): its useState cells
  \* and what FormBuilder's effect last saw of [selectedFieldId, fields]
  editingField, showFieldEditor, effectDeps,
  \* fillAndDownloadPDF(pdfFile, fields, formData): the page heights of the
  \* loaded document, where the call stands, the loop's field and its write
  \* origin, the drawText calls made, the FillResult, whether downloadPDF ran,
  \* what was thrown
  pages, fpc, fieldIndex, pdfX, pdfY, draws, result, downloaded, thrown,
  \* validateFormData(fields, formData): what it returned (None before)
  validation,
  \* history: for each stored template, the registry it was saved from; the
  \* last call of handleFieldUpdate; the ids the registry has lost
  savedRegistry, lastUpdate, removedIds,
  \* history: the page that was displayed when the first corner of the create
  \* gesture under way was placed
  anchorPage

wrapVars == <<text, maxWidth, fontSize, paragraphs, words, line, allLines,
              tempWord, cutIndex, wpc>>

appVars == <<pdfFile, fields, selectedFieldId, formData, templates,
             isProcessing, notification, movable, localStorage, now, fillJob,
             savedRegistry, lastUpdate, removedIds>>

viewerVars == <<numPages, pageNumber, scale, isAddingField, dragStart,
                newField, isDragging, dragFieldId, dragOffset>>

fillVars == <<pages, fpc, fieldIndex, pdfX, pdfY, draws, result, downloaded,
              thrown>>

engineVars == <<wrapVars, fillVars, validation>>

editorVars == <<editingField, showFieldEditor, effectDeps>>

\* PDFViewer: the field whose label is edited on the page, and the draft.
labelVars == <<editingFieldId, editingLabel>>

vars == <<wrapVars, appVars, viewerVars, fillVars, validation, isMobile,
          editorVars, labelVars, anchorPage>>

\* ---------------------------------------------------------------- wrapText
\* The inner loop of the long-word branch: cutIndex is lowered while the
\* prefix is wider than maxWidth.
PrefixTooWide(w, ci, mw, fs) == widthOfTextAtSize(Substring(w, 0, ci), fs) > mw

\* ForcedCutIndex without the forcing: a cut at 0 stays at 0.
UnforcedCutIndex(ci) == ci

\* "if (cutIndex === 0) cutIndex = 1"
ForcedCutIndex(ci) == IF ci = 0 THEN 1 ELSE ci

\* NormalWord without the width test: every word joins the open line.
NormalWordNoWrap(ln, word, mw, fs) ==
  <<(<<>>), IF Len(ln) > 0 THEN ln \o <<SP>> \o word ELSE word>>

\* NormalWord that pushes the open line without starting the next one with
\* the word.
NormalWordDropped(ln, word, mw, fs) ==
  LET testLine == IF Len(ln) > 0 THEN ln \o <<SP>> \o word ELSE word
  IN  IF widthOfTextAtSize(testLine, fs) > mw
        THEN <<(<<ln>>), (<<>>)>>
        ELSE <<(<<>>), testLine>>

\* The normal-word branch: the pair <<lines pushed, new line>>.
NormalWord(ln, word, mw, fs) ==
  LET testLine == IF Len(ln) > 0 THEN ln \o <<SP>> \o word ELSE word
  IN  IF widthOfTextAtSize(testLine, fs) > mw
        THEN <<(<<ln>>), word>>
        ELSE <<(<<>>), testLine>>

WrapArgs ==
  /\ text \in Texts(MaxTextLen)
  /\ maxWidth \in (-1)..MaxWrapWidth
  /\ fontSize \in {1, 2}
  /\ paragraphs = Split(text, NL)
  /\ words = <<>>
  /\ line = <<>>
  /\ allLines = <<>>
  /\ tempWord = <<>>
  /\ cutIndex = 0
  /\ wpc = "paragraph"

\* for (const paragraph of paragraphs): the next paragraph, or the return.
NextParagraph ==
  /\ wpc = "paragraph"
  /\ IF paragraphs = <<>>
       THEN /\ wpc' = "done"
            /\ UNCHANGED <<paragraphs, words, line>>
       ELSE /\ words' = Split(Head(paragraphs), SP)
            /\ line' = <<>>
            /\ paragraphs' = Tail(paragraphs)
            /\ wpc' = "word"
  /\ UNCHANGED <<text, maxWidth, fontSize, allLines, tempWord, cutIndex>>
  /\ UNCHANGED <<appVars, viewerVars, fillVars, validation, isMobile, editorVars,
                 labelVars, anchorPage>>

\* for (const word of words), the loop over: the open line is pushed.
EndParagraph ==
  /\ wpc = "word"
  /\ words = <<>>
  /\ allLines' = IF Len(line) > 0 THEN Append(allLines, line) ELSE allLines
  /\ wpc' = "paragraph"
  /\ UNCHANGED <<text, maxWidth, fontSize, paragraphs, words, line, tempWord, cutIndex>>
  /\ UNCHANGED <<appVars, viewerVars, fillVars, validation, isMobile, editorVars,
                 labelVars, anchorPage>>

\* A word no wider than maxWidth.
PlaceWord ==
  /\ wpc = "word"
  /\ words # <<>>
  /\ ~(widthOfTextAtSize(Head(words), fontSize) > maxWidth)
  /\ LET r == NormalWord(line, Head(words), maxWidth, fontSize)
     IN  /\ allLines' = allLines \o r[1]
         /\ line' = r[2]
  /\ words' = Tail(words)
  /\ UNCHANGED <<text, maxWidth, fontSize, paragraphs, tempWord, cutIndex, wpc>>
  /\ UNCHANGED <<appVars, viewerVars, fillVars, validation, isMobile, editorVars,
                 labelVars, anchorPage>>

\* A word wider than maxWidth: the open line is pushed and the word is
\* handed to the hard-split loop.
StartLongWord ==
  /\ wpc = "word"
  /\ words # <<>>
  /\ widthOfTextAtSize(Head(words), fontSize) > maxWidth
  /\ allLines' = IF Len(line) > 0 THEN Append(allLines, line) ELSE allLines
  /\ line' = <<>>
  /\ tempWord' = Head(words)
  /\ words' = Tail(words)
  /\ wpc' = "split"
  /\ UNCHANGED <<text, maxWidth, fontSize, paragraphs, cutIndex>>
  /\ UNCHANGED <<appVars, viewerVars, fillVars, validation, isMobile, editorVars,
                 labelVars, anchorPage>>

\* while (tempWord.length > 0): one more chunk, or back to the words.
SplitHead ==
  /\ wpc = "split"
  /\ IF Len(tempWord) > 0
       THEN /\ cutIndex' = Len(tempWord)
            /\ wpc' = "cut"
       ELSE /\ wpc' = "word"
            /\ UNCHANGED cutIndex
  /\ UNCHANGED <<text, maxWidth, fontSize, paragraphs, words, line, allLines, tempWord>>
  /\ UNCHANGED <<appVars, viewerVars, fillVars, validation, isMobile, editorVars,
                 labelVars, anchorPage>>

\* cutIndex--
LowerCutIndex ==
  /\ wpc = "cut"
  /\ PrefixTooWide(tempWord, cutIndex, maxWidth, fontSize)
  /\ cutIndex > -MaxUnderrun
  /\ cutIndex' = cutIndex - 1
  /\ UNCHANGED <<text, maxWidth, fontSize, paragraphs, words, line, allLines, tempWord, wpc>>
  /\ UNCHANGED <<appVars, viewerVars, fillVars, validation, isMobile, editorVars,
                 labelVars, anchorPage>>

\* The prefix fits: it is pushed as a line of its own and cut off tempWord.
EmitChunk ==
  /\ wpc = "cut"
  /\ ~PrefixTooWide(tempWord, cutIndex, maxWidth, fontSize)
  /\ LET ci == ForcedCutIndex(cutIndex)
     IN  /\ allLines' = Append(allLines, Substring(tempWord, 0, ci))
         /\ tempWord' = Substring(tempWord, ci, Len(tempWord))
         /\ cutIndex' = ci
  /\ wpc' = "split"
  /\ UNCHANGED <<text, maxWidth, fontSize, paragraphs, words, line>>
  /\ UNCHANGED <<appVars, viewerVars, fillVars, validation, isMobile, editorVars,
                 labelVars, anchorPage>>

\* wrapText and fillPDF before any call.
WrapIdle ==
  /\ text = <<>>
  /\ maxWidth = 0
  /\ fontSize = 1
  /\ paragraphs = <<>>
  /\ words = <<>>
  /\ line = <<>>
  /\ allLines = <<>>
  /\ tempWord = <<>>
  /\ cutIndex = 0
  /\ wpc = "idle"

FillIdle ==
  /\ pages = <<>>
  /\ fpc = "idle"
  /\ fieldIndex = 0
  /\ pdfX = 0
  /\ pdfY = 0
  /\ draws = <<>>
  /\ result = None
  /\ downloaded = FALSE
  /\ thrown = "none"

EngineIdle == WrapIdle /\ FillIdle /\ validation = None

WrapStep ==
  \/ NextParagraph
  \/ EndParagraph
  \/ PlaceWord
  \/ StartLongWord
  \/ SplitHead
  \/ LowerCutIndex
  \/ EmitChunk

\* ------------------------------------------------------------ the registry
FieldKeys == {"id", "x", "y", "width", "height", "label", "type", "pageNumber", "multiline"}

\* FieldId that lags one tick behind the clock.
StaleFieldId(t) == "field_" \o ToString(t - 1)

\* `field_${Date.now()}`
FieldId(t) == "field_" \o ToString(t)
\* `template_${Date.now()}`
TemplateId(t) == "template_" \o ToString(t)

\* The static configuration of App (one of its fields, whole coordinates).
staticFields ==
  << [id |-> "field_0", x |-> 182, y |-> 194, width |-> 100, height |-> 20,
      label |-> "Div", type |-> "text", pageNumber |-> 1,
      multiline |-> None] >>

Ids(fs) == {fs[i].id : i \in DOMAIN fs}

\* fields.find(f => f.id === id): None when there is none.
FindField(fs, id) ==
  IF \E i \in DOMAIN fs : fs[i].id = id
    THEN Some(fs[CHOOSE i \in DOMAIN fs :
                    fs[i].id = id /\ \A j \in 1..(i - 1) : fs[j].id # id])
    ELSE None

\* { ...field, ...updates }
Spread(field, updates) ==
  [k \in DOMAIN field |-> IF k \in DOMAIN updates THEN updates[k] ELSE field[k]]

\* An update that adds the field when no field has the id.
UpsertField(prev, id, updates) ==
  IF id \in Ids(prev)
    THEN [i \in DOMAIN prev |-> IF prev[i].id = id THEN Spread(prev[i], updates) ELSE prev[i]]
    ELSE Append(prev, Spread([id |-> id, x |-> 0, y |-> 0, width |-> 100,
                               height |-> 20, label |-> "", type |-> "text",
                               pageNumber |-> 1, multiline |-> None], updates))

\* handleFieldUpdate's updater: prev.map(field => field.id === id ? {...} : field)
UpdatedFields(prev, id, updates) ==
  [i \in DOMAIN prev |-> IF prev[i].id = id THEN Spread(prev[i], updates) ELSE prev[i]]

\* prev.filter(field => field.id !== id)
WithoutField(prev, id) == SelectSeq(prev, LAMBDA f : f.id # id)

\* { ...prev, [key]: value }
WithEntry(data, key, value) ==
  [k \in (DOMAIN data) \cup {key} |-> IF k = key THEN value ELSE data[k]]

\* WithoutEntry that leaves the entry in place.
KeepEntry(data, key) == data

\* delete newData[id]
WithoutEntry(data, key) == [k \in (DOMAIN data) \ {key} |-> data[k]]

EmptyData == [k \in {} |-> <<>>]

\* formData[id]: undefined when the key is absent.
ValueOf(data, id) == IF id \in DOMAIN data THEN Some(data[id]) ELSE None

\* !value || value.trim() === ''
IsBlank(optValue) == optValue = None \/ optValue[1] = <<>> \/ Trim(optValue[1]) = <<>>

\* The ids the registry has lost, once it holds `next`.
Lost(next) == removedIds \cup (Ids(fields) \ Ids(next))

\* ------------------------------------------------------------ validation
Digits == {"0", "1", "2", "3", "4", "5", "6", "7", "8", "9"}

DigitValue(c) == CHOOSE n \in 0..9 : ToString(n) = c

\* A StrUnsignedDecimalLiteral without exponent: digits with at most one
\* point and at least one digit.
IsDecimalLiteral(u) ==
  /\ \A i \in DOMAIN u : u[i] \in Digits \cup {"."}
  /\ Cardinality({i \in DOMAIN u : u[i] = "."}) <= 1
  /\ \E i \in DOMAIN u : u[i] \in Digits

\* isNaN(Number(value)): the string is trimmed; the empty string is 0; an
\* optional sign goes before the literal.
NumberIsNaN(s) ==
  LET t == Trim(s)
      u == IF t # <<>> /\ t[1] \in {"+", "-"} THEN Tail(t) ELSE t
  IN  t # <<>> /\ ~IsDecimalLiteral(u)

\* isNaN(Date.parse(value)) for the date-only form YYYY-MM-DD; any other
\* string of the model is one the engine's fallback parser rejects.
DateParseIsNaN(s) ==
  ~ /\ Len(s) = 10
    /\ s[5] = "-" /\ s[8] = "-"
    /\ \A i \in {1, 2, 3, 4, 6, 7, 9, 10} : s[i] \in Digits
    /\ (10 * DigitValue(s[6]) + DigitValue(s[7])) \in 1..12
    /\ (10 * DigitValue(s[9]) + DigitValue(s[10])) \in 1..31

\* TypeError that never objects.
NoTypeError(field, value) == <<>>

\* The type-specific switch of validateFormData: the error it pushes, if any.
TypeError(field, value) ==
  CASE field.type = "number" /\ NumberIsNaN(value) ->
         << <<field.label, "must be a valid number">> >>
    [] field.type = "date" /\ DateParseIsNaN(value) ->
         << <<field.label, "must be a valid date">> >>
    [] OTHER -> <<>>

\* The loop of validateFormData: the errors of the fields, in order.
RECURSIVE ValidationErrors(_, _)
ValidationErrors(fs, data) ==
  IF fs = <<>> THEN <<>>
  ELSE LET field == Head(fs)
           value == ValueOf(data, field.id)
           errs == IF IsBlank(value)
                     THEN << <<field.label, "is required">> >>
                     ELSE TypeError(field, value[1])
       IN  errs \o ValidationErrors(Tail(fs), data)

validateFormData(fs, data) ==
  LET errors == ValidationErrors(fs, data)
  IN  [isValid |-> Len(errors) = 0, errors |-> errors]

\* ------------------------------------------------------ template persistence
\* JSON.stringify of a field: its properties in order, one <<key, value>> for
\* each; a property whose value is undefined (multiline, when it was never
\* set) is left out.
FieldKeyOrder ==
  <<"id", "x", "y", "width", "height", "label", "type", "pageNumber", "multiline">>

StringifyField(f) ==
  SelectSeq([i \in DOMAIN FieldKeyOrder |-> <<FieldKeyOrder[i], f[FieldKeyOrder[i]]>>],
            LAMBDA kv : ~(kv[1] = "multiline" /\ kv[2] = None))

\* JSON.parse of a field; reading a property the text does not hold gives
\* undefined.
ParseField(kvs) ==
  [k \in FieldKeys |->
     IF \E i \in DOMAIN kvs : kvs[i][1] = k
       THEN kvs[CHOOSE i \in DOMAIN kvs : kvs[i][1] = k][2]
       ELSE None]

\* A Date is its time value; toJSON gives an ISO string, new Date(string)
\* reads it back.
DateToJSON(d) == <<"iso", d>>
NewDate(iso) == iso[2]

StringifyTemplate(t) ==
  [id |-> t.id, name |-> t.name, description |-> t.description,
   fields |-> [i \in DOMAIN t.fields |-> StringifyField(t.fields[i])],
   createdAt |-> DateToJSON(t.createdAt), updatedAt |-> DateToJSON(t.updatedAt)]

\* JSON.parse(savedTemplates).map(template => ({...template, createdAt: new
\* Date(template.createdAt), updatedAt: new Date(template.updatedAt)}))
ParseTemplate(j) ==
  [id |-> j.id, name |-> j.name, description |-> j.description,
   fields |-> [i \in DOMAIN j.fields |-> ParseField(j.fields[i])],
   createdAt |-> NewDate(j.createdAt), updatedAt |-> NewDate(j.updatedAt)]

StringifyTemplates(ts) == [i \in DOMAIN ts |-> StringifyTemplate(ts[i])]
ParseTemplates(js) == [i \in DOMAIN js |-> ParseTemplate(js[i])]

\* --------------------------------------------------------------------- App
\* The values an operator types into a form input.
TxtAbc == <<"a", "b", "c">>
Txt42 == <<"4", "2">>
FormValues == {<<>>, TxtAbc, Txt42}

\* The view positions of the pointer, relative to the page's corner.
Point(px, py) == [x |-> px, y |-> py]
ClickPoints == {Point(50, 50), Point(60, 55), Point(200, 200)}
\* Where inside a field the pointer takes hold of it.
GrabOffset == Point(18, 6)
\* The keys of the keydown events.
Keys == {"Delete", "Backspace"}

\* `scale` holds tenths: 10 is the scale 1.0.
ToDocumentSpace(v, s) == (v * 10) \div s

\* App after its first render and its mount effects, the registry holding
\* `registry`.
AppInitWith(registry) ==
  /\ pdfFile = None
  /\ fields = registry
  /\ formData = [id \in Ids(registry) |-> <<>>]
  /\ selectedFieldId = Null
  /\ templates = <<>>
  /\ savedRegistry = <<>>
  /\ localStorage = <<>>
  /\ isProcessing = FALSE
  /\ fillJob = None
  /\ notification = "none"
  /\ movable = FALSE
  /\ now = 1
  /\ lastUpdate = None
  /\ removedIds = {}

AppInit == AppInitWith(staticFields)

ViewerInit ==
  /\ numPages = 0
  /\ pageNumber = 1
  /\ scale = 10
  /\ isAddingField = FALSE
  /\ dragStart = None
  /\ newField = None
  /\ isDragging = FALSE
  /\ dragFieldId = Null
  /\ dragOffset = None
  /\ isMobile = FALSE
  /\ editingFieldId = Null
  /\ editingLabel = ""
  /\ anchorPage = None

\* No field is being edited.
EditorInit ==
  /\ editingField = None
  /\ showFieldEditor = FALSE
  /\ effectDeps = <<selectedFieldId, fields>>

\* PDFViewer and FloatingToolbar are rendered once the document is loaded.
Rendered == pdfFile # None

\* Date.now() moves on.
Tick ==
  /\ now < MaxClock
  /\ now' = now + 1
  /\ UNCHANGED <<pdfFile, fields, selectedFieldId, formData, templates,
                 isProcessing, notification, movable, localStorage, fillJob,
                 savedRegistry, removedIds, lastUpdate, viewerVars, engineVars,
                 isMobile, editorVars,
                 labelVars, anchorPage>>

\* loadAndMergePDFs resolves (the merged document, or main.pdf alone), and the
\* viewer reports the document's pages.
LoadPdf ==
  /\ pdfFile = None
  /\ \E f \in {"merged-document.pdf", "main.pdf"} :
       /\ pdfFile' = Some(f)
       /\ numPages' = IF f = "main.pdf" THEN 1 ELSE 2
  /\ UNCHANGED <<fields, selectedFieldId, formData, templates, isProcessing,
                 notification, movable, localStorage, now, fillJob,
                 savedRegistry, removedIds, pageNumber, scale, isAddingField, dragStart,
                 newField, isDragging, dragFieldId, dragOffset, lastUpdate,
                 engineVars, isMobile, editorVars,
                 labelVars, anchorPage>>

\* onMovableToggle
MovableToggle ==
  /\ Rendered
  /\ ~isDragging
  /\ movable' = ~movable
  /\ UNCHANGED <<pdfFile, fields, selectedFieldId, formData, templates,
                 isProcessing, notification, localStorage, now, fillJob,
                 savedRegistry, removedIds, lastUpdate, viewerVars, engineVars,
                 isMobile, editorVars,
                 labelVars, anchorPage>>

\* handleFieldSelect, from a click on a field of the page or of the toolbar's
\* list.
HandleFieldSelect(id) ==
  /\ Rendered
  /\ ~isDragging
  /\ id \in Ids(fields)
  /\ selectedFieldId' = id
  /\ UNCHANGED <<pdfFile, fields, formData, templates, isProcessing,
                 notification, movable, localStorage, now, fillJob,
                 savedRegistry, removedIds, lastUpdate, viewerVars, engineVars,
                 isMobile, editorVars,
                 labelVars, anchorPage>>

\* A delete that leaves the selection as it is.
SelectedKept(selected, id) == selected

\* "if (selectedFieldId === id) setSelectedFieldId(null)"
SelectedAfterDelete(selected, id) == IF selected = id THEN Null ELSE selected

\* HandleFieldDelete that splices the array in place: a template saved from
\* this very array (templateData.fields is `fields`) loses the field as well.
HandleFieldDeleteInPlace(id) ==
  /\ Rendered
  /\ ~isDragging
  /\ id \in Ids(fields)
  /\ fields' = WithoutField(fields, id)
  /\ templates' = [k \in DOMAIN templates |->
                     IF templates[k].fields = fields
                       THEN [templates[k] EXCEPT !.fields = WithoutField(fields, id)]
                       ELSE templates[k]]
  /\ formData' = WithoutEntry(formData, id)
  /\ selectedFieldId' = SelectedAfterDelete(selectedFieldId, id)
  /\ notification' = "Field deleted successfully"
  /\ removedIds' = Lost(WithoutField(fields, id))
  /\ UNCHANGED <<pdfFile, isProcessing, movable, localStorage, now, fillJob,
                 savedRegistry, lastUpdate, viewerVars, engineVars, isMobile,
                 editorVars,
                 labelVars, anchorPage>>

\* handleFieldDelete, from the toolbar's list or the selected field's button.
HandleFieldDelete(id) ==
  /\ Rendered
  /\ ~isDragging
  /\ id \in Ids(fields)
  /\ fields' = WithoutField(fields, id)
  /\ formData' = WithoutEntry(formData, id)
  /\ selectedFieldId' = SelectedAfterDelete(selectedFieldId, id)
  /\ notification' = "Field deleted successfully"
  /\ removedIds' = Lost(WithoutField(fields, id))
  /\ UNCHANGED <<pdfFile, templates, isProcessing, movable, localStorage, now,
                 fillJob, savedRegistry, lastUpdate, viewerVars, engineVars,
                 isMobile, editorVars,
                 labelVars, anchorPage>>

\* handleFormDataChange, from a form input of the toolbar.
HandleFormDataChange(fieldId, value) ==
  /\ Rendered
  /\ fieldId \in Ids(fields)
  /\ formData' = WithEntry(formData, fieldId, value)
  /\ UNCHANGED <<pdfFile, fields, selectedFieldId, templates, isProcessing,
                 notification, movable, localStorage, now, fillJob,
                 savedRegistry, removedIds, lastUpdate, viewerVars, engineVars,
                 isMobile, editorVars,
                 labelVars, anchorPage>>

\* handleSaveTemplate and handleTemplateSave: the registry is stored under a
\* new template, and the templates effect writes localStorage.
HandleTemplateSave ==
  /\ Rendered
  /\ ~isDragging
  /\ Len(fields) > 0
  /\ Len(templates) < MaxTemplates
  /\ LET newTemplate == [id |-> TemplateId(now), name |-> "t", description |-> "",
                         fields |-> fields, createdAt |-> now, updatedAt |-> now]
     IN  /\ templates' = Append(templates, newTemplate)
         /\ localStorage' = StringifyTemplates(Append(templates, newTemplate))
  /\ savedRegistry' = Append(savedRegistry, fields)
  /\ notification' = "Template saved successfully"
  /\ UNCHANGED <<removedIds, pdfFile, fields, selectedFieldId, formData, isProcessing,
                 movable, now, fillJob, lastUpdate, viewerVars, engineVars,
                 isMobile, editorVars,
                 labelVars, anchorPage>>

\* LoadedRegistry that keeps the fields the registry held.
MergedRegistry(prev, template) == prev \o template.fields

\* setFields(template.fields)
LoadedRegistry(prev, template) == template.fields

\* handleTemplateLoad
HandleTemplateLoad(k) ==
  /\ Rendered
  /\ ~isDragging
  /\ k \in DOMAIN templates
  /\ fields' = LoadedRegistry(fields, templates[k])
  /\ formData' = EmptyData
  /\ selectedFieldId' = Null
  /\ notification' = "Template loaded successfully"
  /\ removedIds' = Lost(LoadedRegistry(fields, templates[k]))
  /\ UNCHANGED <<pdfFile, templates, isProcessing, movable, localStorage, now,
                 fillJob, savedRegistry, lastUpdate, viewerVars, engineVars,
                 isMobile, editorVars,
                 labelVars, anchorPage>>

\* handleTemplateDelete, and the templates effect.
HandleTemplateDelete(id) ==
  /\ Rendered
  /\ ~isDragging
  /\ \E k \in DOMAIN templates : templates[k].id = id
  /\ LET keep == {k \in DOMAIN templates : templates[k].id # id}
         Pick(seq) == SelectSeq([k \in DOMAIN seq |-> <<k, seq[k]>>],
                                LAMBDA e : e[1] \in keep)
         left == [i \in DOMAIN Pick(templates) |-> Pick(templates)[i][2]]
     IN  /\ templates' = left
         /\ localStorage' = StringifyTemplates(left)
         /\ savedRegistry' = [i \in DOMAIN Pick(savedRegistry) |-> Pick(savedRegistry)[i][2]]
  /\ notification' = "Template deleted successfully"
  /\ UNCHANGED <<removedIds, pdfFile, fields, selectedFieldId, formData, isProcessing,
                 movable, now, fillJob, lastUpdate, viewerVars, engineVars,
                 isMobile, editorVars,
                 labelVars, anchorPage>>

\* The page is loaded anew: every useState cell starts over, the templates are
\* read from localStorage and written back by the templates effect.  A fill
\* in flight belongs to the page left behind.
Reload ==
  /\ Rendered
  /\ fillJob = None
  /\ pdfFile' = None
  /\ fields' = staticFields
  /\ removedIds' = Lost(staticFields)
  /\ formData' = [id \in Ids(staticFields) |-> <<>>]
  /\ selectedFieldId' = Null
  /\ templates' = ParseTemplates(localStorage)
  /\ localStorage' = StringifyTemplates(ParseTemplates(localStorage))
  /\ isProcessing' = FALSE
  /\ notification' = "none"
  /\ movable' = FALSE
  /\ numPages' = 0
  /\ pageNumber' = 1
  /\ scale' = 10
  /\ isAddingField' = FALSE
  /\ dragStart' = None
  /\ newField' = None
  /\ isDragging' = FALSE
  /\ dragFieldId' = Null
  /\ dragOffset' = None
  /\ editingField' = None
  /\ showFieldEditor' = FALSE
  /\ effectDeps' = <<Null, staticFields>>
  /\ editingFieldId' = Null
  /\ editingLabel' = ""
  /\ anchorPage' = None
  /\ UNCHANGED <<now, fillJob, savedRegistry, lastUpdate, engineVars, isMobile>>

\* Download buttons that a fill in flight does not disable.
DownloadAlwaysEnabled == TRUE

\* disabled={isProcessing}, on both download buttons of the toolbar.
DownloadEnabled == ~isProcessing

\* handleFillAndDownload (App.tsx): the fill is refused on an empty registry
\* and on a validation error, and started otherwise.
HandleFillAndDownload ==
  /\ Rendered
  /\ ~isDragging
  /\ DownloadEnabled
  /\ IF Len(fields) = 0
       THEN /\ notification' = "Please add at least one field to the PDF"
            /\ UNCHANGED <<isProcessing, fillJob>>
       ELSE IF ~validateFormData(fields, formData).isValid
         THEN /\ notification' = "Validation failed"
              /\ UNCHANGED <<isProcessing, fillJob>>
         ELSE /\ isProcessing' = TRUE
              /\ fillJob' = Append(fillJob, [fields |-> fields, formData |-> formData])
              /\ UNCHANGED notification
  /\ UNCHANGED <<pdfFile, fields, selectedFieldId, formData, templates,
                 movable, localStorage, now, savedRegistry, removedIds,
                 lastUpdate, viewerVars, engineVars,
                 isMobile, editorVars,
                 labelVars, anchorPage>>

\* handleFillAndDownload as the later App has it: no validation.
HandleFillAndDownloadUnchecked ==
  /\ Rendered
  /\ ~isDragging
  /\ DownloadEnabled
  /\ IF Len(fields) = 0
       THEN /\ notification' = "Please add at least one field to the PDF"
            /\ UNCHANGED <<isProcessing, fillJob>>
       ELSE /\ isProcessing' = TRUE
            /\ fillJob' = Append(fillJob, [fields |-> fields, formData |-> formData])
            /\ UNCHANGED notification
  /\ UNCHANGED <<pdfFile, fields, selectedFieldId, formData, templates,
                 movable, localStorage, now, savedRegistry, removedIds,
                 lastUpdate, viewerVars, engineVars,
                 isMobile, editorVars,
                 labelVars, anchorPage>>

\* fillAndDownloadPDF settles (with success, with an error result, or by
\* throwing), and the finally clause clears the flag.  fillJob holds the
\* calls in flight, the oldest first.
FillSettles ==
  /\ fillJob # None
  /\ \E n \in {"PDF filled and downloaded successfully", "Failed to fill PDF",
               "An error occurred while processing the PDF"} :
       notification' = n
  /\ isProcessing' = FALSE
  /\ fillJob' = Tail(fillJob)
  /\ UNCHANGED <<pdfFile, fields, selectedFieldId, formData, templates,
                 movable, localStorage, now, savedRegistry, removedIds,
                 lastUpdate, viewerVars, engineVars,
                 isMobile, editorVars,
                 labelVars, anchorPage>>

\* --------------------------------------------------------------- PDFViewer
\* The fields the page shows, and whether the pointer is over one of them.
Displayed(f) == f.pageNumber = pageNumber

OnField(p) ==
  \E i \in DOMAIN fields :
    /\ Displayed(fields[i])
    /\ fields[i].x <= p.x /\ p.x <= fields[i].x + fields[i].width
    /\ fields[i].y <= p.y /\ p.y <= fields[i].y + fields[i].height

\* (event.clientX - rect.left) / scale
PointerInDocument(p) == Point(ToDocumentSpace(p.x, scale), ToDocumentSpace(p.y, scale))

\* CreatedField that anchors the field at the first corner.
CreatedFieldAtStart(start, p, n, t, page) ==
  [id |-> FieldId(t), x |-> start.x, y |-> start.y,
   width |-> Max(Abs(p.x - start.x), 100), height |-> Max(Abs(p.y - start.y), 20),
   label |-> "Field " \o ToString(n + 1), type |-> "text", pageNumber |-> page,
   multiline |-> None]

\* The field a create gesture builds from its two corners.
CreatedField(start, p, n, t, page) ==
  [id |-> FieldId(t), x |-> Min(p.x, start.x), y |-> Min(p.y, start.y),
   width |-> Max(Abs(p.x - start.x), 100), height |-> Max(Abs(p.y - start.y), 20),
   label |-> "Field " \o ToString(n + 1), type |-> "text", pageNumber |-> page,
   multiline |-> None]

\* App.handleFieldAdd
onFieldAdd(field) ==
  /\ fields' = Append(fields, field)
  /\ formData' = WithEntry(formData, field.id, <<>>)
  /\ selectedFieldId' = field.id
  /\ notification' = "Field added successfully"

\* App.handleFieldUpdate; it returns nothing.
onFieldUpdate(id, updates) ==
  /\ fields' = UpdatedFields(fields, id, updates)
  /\ lastUpdate' = Some([id |-> id, known |-> id \in Ids(fields),
                         changed |-> UpdatedFields(fields, id, updates) # fields,
                         returned |-> "undefined"])

\* App.handleFieldDelete
onFieldDelete(id) ==
  /\ fields' = WithoutField(fields, id)
  /\ formData' = WithoutEntry(formData, id)
  /\ selectedFieldId' = SelectedAfterDelete(selectedFieldId, id)
  /\ notification' = "Field deleted successfully"
  /\ removedIds' = Lost(WithoutField(fields, id))

\* The Add Field button (shown while movable).
ToggleAddField ==
  /\ Rendered
  /\ ~isDragging
  /\ movable
  /\ isAddingField' = ~isAddingField
  /\ UNCHANGED <<appVars, engineVars, numPages, pageNumber, scale, dragStart,
                 newField, isDragging, dragFieldId, dragOffset,
                 isMobile, editorVars,
                 labelVars, anchorPage>>

\* The Previous and Next buttons.
TurnPage ==
  /\ Rendered
  /\ ~isDragging
  /\ \/ pageNumber > 1 /\ pageNumber' = Max(1, pageNumber - 1)
     \/ pageNumber < numPages /\ pageNumber' = Min(numPages, pageNumber + 1)
  /\ UNCHANGED <<appVars, engineVars, numPages, scale, isAddingField, dragStart,
                 newField, isDragging, dragFieldId, dragOffset,
                 isMobile, editorVars,
                 labelVars, anchorPage>>

\* The end of a create gesture at document position d.
CompleteGesture(d) ==
  /\ Len(fields) < MaxFields
  /\ onFieldAdd(CreatedField(dragStart[1], d, Len(fields), now, pageNumber))
  /\ isAddingField' = FALSE
  /\ dragStart' = None
  /\ newField' = None
  /\ anchorPage' = None
  /\ UNCHANGED <<pdfFile, templates, isProcessing, movable, localStorage, now,
                 fillJob, savedRegistry, removedIds, lastUpdate, engineVars, numPages,
                 pageNumber, scale, isDragging, dragFieldId, dragOffset,
                 isMobile, editorVars,
                 labelVars>>

\* The start of a create gesture at document position d.
StartGesture(d, page) ==
  /\ dragStart' = Some(d)
  /\ newField' = Some([x |-> d.x, y |-> d.y, width |-> 0, height |-> 0,
                       pageNumber |-> page])
  /\ anchorPage' = Some(pageNumber)
  /\ UNCHANGED <<appVars, engineVars, numPages, pageNumber, scale,
                 isAddingField, isDragging, dragFieldId, dragOffset,
                 isMobile, editorVars,
                 labelVars>>

\* handlePageClick: a click on the page, outside its fields.
HandlePageClick(p) ==
  /\ Rendered
  /\ ~isDragging
  /\ ~OnField(p)
  /\ movable /\ isAddingField
  /\ IF dragStart = None
       THEN StartGesture(PointerInDocument(p), Some(pageNumber))
       ELSE CompleteGesture(PointerInDocument(p))

\* handleTouchStart: a touch on the page, outside its fields.
HandleTouchStart(p) ==
  /\ Rendered
  /\ ~isDragging
  /\ ~OnField(p)
  /\ isAddingField
  /\ dragStart = None
  /\ StartGesture(PointerInDocument(p), None)

\* A pointer-up that clears the flag and leaves the field and the offset.
EndDragFlagOnly ==
  /\ isDragging' = FALSE
  /\ UNCHANGED <<dragFieldId, dragOffset>>
  /\ UNCHANGED <<appVars, engineVars, numPages, pageNumber, scale,
                 isAddingField, dragStart, newField, isMobile, editorVars,
                 labelVars, anchorPage>>

\* The drag is over.
EndDrag ==
  /\ isDragging' = FALSE
  /\ dragFieldId' = Null
  /\ dragOffset' = None
  /\ UNCHANGED <<appVars, engineVars, numPages, pageNumber, scale,
                 isAddingField, dragStart, newField, isMobile, editorVars,
                 labelVars, anchorPage>>

\* handleTouchEnd: the finger leaves the page at p.
HandleTouchEnd(p) ==
  /\ Rendered
  /\ IF isDragging
       THEN EndDrag
       ELSE /\ isAddingField /\ dragStart # None
            /\ CompleteGesture(PointerInDocument(p))

\* The pointer takes hold of a field.
StartDrag(fieldId) ==
  /\ movable
  /\ \E i \in DOMAIN fields : fields[i].id = fieldId /\ Displayed(fields[i])
  /\ LET field == FindField(fields, fieldId)[1]
         m == PointerInDocument(Point(field.x + GrabOffset.x, field.y + GrabOffset.y))
     IN  dragOffset' = Some(Point(m.x - field.x, m.y - field.y))
  /\ isDragging' = TRUE
  /\ dragFieldId' = fieldId
  /\ selectedFieldId' = fieldId
  /\ UNCHANGED <<pdfFile, fields, formData, templates, isProcessing,
                 notification, movable, localStorage, now, fillJob,
                 savedRegistry, removedIds, lastUpdate, engineVars, numPages, pageNumber,
                 scale, isAddingField, dragStart, newField,
                 isMobile, editorVars,
                 labelVars, anchorPage>>

\* handleFieldMouseDown
HandleFieldMouseDown(fieldId) ==
  /\ Rendered
  /\ ~isDragging
  /\ StartDrag(fieldId)

\* handleFieldTouchStart
HandleFieldTouchStart(fieldId) ==
  /\ Rendered
  /\ ~isDragging
  /\ StartDrag(fieldId)

\* A drag that puts the field's corner under the pointer.
DraggedToPointer(m, offset) == [x |-> m.x, y |-> m.y]

\* newX = mouseX - dragOffset.x, newY = mouseY - dragOffset.y
Dragged(m, offset) == [x |-> m.x - offset.x, y |-> m.y - offset.y]

\* The drag branch of handleMouseMove, and handleTouchMove.
DragTo(p) ==
  /\ isDragging /\ dragFieldId # Null /\ dragOffset # None
  /\ onFieldUpdate(dragFieldId, Dragged(PointerInDocument(p), dragOffset[1]))
  /\ UNCHANGED <<pdfFile, selectedFieldId, formData, templates, isProcessing,
                 notification, movable, localStorage, now, fillJob,
                 savedRegistry, removedIds, engineVars, viewerVars, isMobile, editorVars,
                 labelVars, anchorPage>>

\* The preview branch of handleMouseMove.
Preview(p) ==
  /\ isAddingField /\ dragStart # None /\ newField # None
  /\ LET d == PointerInDocument(p)
     IN  newField' = Some(Spread(newField[1],
                     [x |-> Min(d.x, dragStart[1].x), y |-> Min(d.y, dragStart[1].y),
                      width |-> Max(Abs(d.x - dragStart[1].x), 100),
                      height |-> Max(Abs(d.y - dragStart[1].y), 20)]))
  /\ UNCHANGED <<appVars, engineVars, numPages, pageNumber, scale,
                 isAddingField, dragStart, isDragging, dragFieldId, dragOffset,
                 isMobile, editorVars,
                 labelVars, anchorPage>>

\* handleMouseMove
HandleMouseMove(p) ==
  /\ Rendered
  /\ IF isDragging /\ dragFieldId # Null /\ dragOffset # None
       THEN DragTo(p)
       ELSE Preview(p)

\* handleTouchMove
HandleTouchMove(p) ==
  /\ Rendered
  /\ DragTo(p)

\* handleMouseUp, and handleGlobalMouseUp
HandleMouseUp ==
  /\ Rendered
  /\ isDragging
  /\ EndDrag

\* The field an arrow key moves the selected field to.
Nudged(field, key, step) ==
  CASE key = "ArrowUp" -> [x |-> field.x, y |-> Max(0, field.y - step)]
    [] key = "ArrowDown" -> [x |-> field.x, y |-> field.y + step]
    [] key = "ArrowLeft" -> [x |-> Max(0, field.x - step), y |-> field.y]
    [] key = "ArrowRight" -> [x |-> field.x + step, y |-> field.y]

\* handleKeyDown, the focus outside the inputs.
HandleKeyDown(key, shiftKey) ==
  /\ Rendered
  /\ movable /\ selectedFieldId # Null
  /\ FindField(fields, selectedFieldId) # None
  /\ IF key \in {"Delete", "Backspace"}
       THEN /\ onFieldDelete(selectedFieldId)
            /\ UNCHANGED <<pdfFile, templates, isProcessing, movable,
                           localStorage, now, fillJob, savedRegistry,
                           lastUpdate, engineVars, viewerVars,
                           isMobile, editorVars,
                 labelVars, anchorPage>>
       ELSE /\ key \in {"ArrowUp", "ArrowDown", "ArrowLeft", "ArrowRight"}
            /\ onFieldUpdate(selectedFieldId,
                 Nudged(FindField(fields, selectedFieldId)[1], key,
                        IF shiftKey THEN 10 ELSE 1))
            /\ UNCHANGED <<pdfFile, selectedFieldId, formData, templates,
                           isProcessing, notification, movable, localStorage,
                           now, fillJob, savedRegistry, removedIds, engineVars, viewerVars,
                           isMobile, editorVars,
                 labelVars, anchorPage>>

\* handleFieldClick
HandleFieldClick(fieldId) ==
  /\ \E i \in DOMAIN fields : fields[i].id = fieldId /\ Displayed(fields[i])
  /\ HandleFieldSelect(fieldId)

\* ------------------------------------------------------- placing fields
\* The operator loads the document, unlocks the page and places fields on it
\* with the mouse or by touch.
Init ==
  /\ AppInit
  /\ ViewerInit
  /\ EditorInit
  /\ EngineIdle

Next ==
  \/ Tick
  \/ LoadPdf
  \/ MovableToggle
  \/ ToggleAddField
  \/ TurnPage
  \/ \E p \in ClickPoints : HandlePageClick(p)
  \/ \E p \in ClickPoints : HandleTouchStart(p)
  \/ \E p \in ClickPoints : HandleTouchEnd(p)
  \/ \E p \in ClickPoints : HandleMouseMove(p)

Spec == Init /\ [][Next]_vars

\* ------------------------------------------- moving and deleting fields
\* A field placed on the first page from (50,50) to (60,55).
PlacedField == CreatedField(Point(50, 50), Point(60, 55), Len(staticFields), 1, 1)

\* The registry holds the static configuration, and a placed field or none.
DragRegistries == {staticFields, Append(staticFields, PlacedField)}

DragInit ==
  /\ \E registry \in DragRegistries : AppInitWith(registry)
  /\ ViewerInit
  /\ EditorInit
  /\ EngineIdle

\* The operator loads the document, unlocks the page, and drags, selects and
\* deletes fields with the mouse, by touch and from the keyboard.
DragNext ==
  \/ LoadPdf
  \/ MovableToggle
  \/ \E id \in Ids(fields) : HandleFieldMouseDown(id)
  \/ \E id \in Ids(fields) : HandleFieldTouchStart(id)
  \/ \E p \in ClickPoints : HandleMouseMove(p)
  \/ \E p \in ClickPoints : HandleTouchMove(p)
  \/ \E p \in ClickPoints : HandleTouchEnd(p)
  \/ HandleMouseUp
  \/ \E key \in Keys : HandleKeyDown(key, FALSE)
  \/ \E id \in Ids(fields) : HandleFieldClick(id)
  \/ \E id \in Ids(fields) : HandleFieldDelete(id)

SpecDrag == DragInit /\ [][DragNext]_vars

\* ------------------------------------------------------------- templates
\* A field of the second page whose type and multiline the operator has set.
NumberField ==
  [id |-> "field_1", x |-> 50, y |-> 50, width |-> 100, height |-> 20,
   label |-> "Field 2", type |-> "number", pageNumber |-> 2,
   multiline |-> Some(TRUE)]

TemplateRegistries ==
  {staticFields, Append(staticFields, NumberField), <<NumberField>>}

TemplatesInit ==
  /\ \E registry \in TemplateRegistries : AppInitWith(registry)
  /\ ViewerInit
  /\ EditorInit
  /\ EngineIdle

\* The operator loads the document, saves, loads and deletes templates,
\* deletes fields, and loads the page anew.
TemplatesNext ==
  \/ Tick
  \/ LoadPdf
  \/ HandleTemplateSave
  \/ \E k \in DOMAIN templates : HandleTemplateLoad(k)
  \/ \E k \in DOMAIN templates : HandleTemplateDelete(templates[k].id)
  \/ \E id \in Ids(fields) : HandleFieldDelete(id)
  \/ Reload

SpecTemplates == TemplatesInit /\ [][TemplatesNext]_vars

\* ---------------------------------------------------------- fill requests
RequestRegistries == {staticFields, Append(staticFields, NumberField)}

RequestInit ==
  /\ \E registry \in RequestRegistries : AppInitWith(registry)
  /\ ViewerInit
  /\ EditorInit
  /\ EngineIdle

\* The operator loads the document, types values, deletes fields and asks
\* for the filled document; the build is the one whose handleFillAndDownload
\* validates or the one whose handleFillAndDownload does not.
RequestNext ==
  \/ LoadPdf
  \/ \E id \in Ids(fields), value \in FormValues : HandleFormDataChange(id, value)
  \/ \E id \in Ids(fields) : HandleFieldDelete(id)
  \/ HandleFillAndDownload
  \/ HandleFillAndDownloadUnchecked
  \/ FillSettles

SpecRequest == RequestInit /\ [][RequestNext]_vars

\* ------------------------------------------------- wrapText on its own
\* wrapText is called with any text, width and font size.
WrapInit ==
  /\ WrapArgs
  /\ FillIdle
  /\ validation = None
  /\ AppInit
  /\ ViewerInit
  /\ EditorInit

SpecWrap == WrapInit /\ [][WrapStep]_vars

\* The call runs on: a loop that can take a step takes it.
FairSpecWrap == SpecWrap /\ WF_vars(WrapStep)

\* ------------------------------------------------------- claims on wrapText
LineFits(l) == widthOfTextAtSize(l, fontSize) <= maxWidth

\* C2: for maxWidth > 0, every line wrapText has returned (or pushed so far)
\* measures at most maxWidth, except a line of exactly one character that is
\* itself wider than maxWidth.
C2_LinesFit ==
  maxWidth > 0 =>
    \A k \in 1..Len(allLines) :
      LineFits(allLines[k]) \/ Len(allLines[k]) = 1

\* C2 witness: wrapText has returned, for a maxWidth > 0, a line of several
\* characters that fits and a forced one-character line that does not.
C2_Witness ==
  /\ wpc = "done"
  /\ maxWidth > 0
  /\ \E k \in 1..Len(allLines) : Len(allLines[k]) > 1 /\ LineFits(allLines[k])
  /\ \E k \in 1..Len(allLines) : Len(allLines[k]) = 1 /\ ~LineFits(allLines[k])

\* C3: every pass of the hard-split loop shortens the remaining word by at
\* least one character, and for maxWidth > 0 wrapText returns.
C3_Terminates ==
  /\ [][(wpc = "cut" /\ wpc' = "split") => Len(tempWord') < Len(tempWord)]_vars
  /\ (maxWidth > 0 => <>(wpc = "done"))

\* C3 witness: wrapText has returned for a maxWidth > 0 smaller than every
\* single character, having split a word of several characters.
C3_Witness ==
  /\ wpc = "done"
  /\ maxWidth > 0
  /\ \A c \in Chars : widthOfTextAtSize(<<c>>, fontSize) > maxWidth
  /\ Len(allLines) >= 3
  /\ \A k \in 1..Len(allLines) : Len(allLines[k]) = 1

\* ----------------------------------------------------------------- fillPDF
\* pages[targetPageIndex] is a page.
PageExists(pgs, field) == field.pageNumber \in DOMAIN pgs

\* The height of the first page, whatever the field's page.
FirstPageHeight(pgs, field) == pgs[1]

\* targetPage.getSize().height
TargetPageHeight(pgs, field) == pgs[field.pageNumber]

\* pdfX and pdfY
WriteX(field) == field.x
WriteY(field, pageHeight) == pageHeight - field.y - field.height

\* Math.min(field.height * 0.7, 12), for heights that are multiples of 10.
FontSizeOf(height) == Min((height * 7) \div 10, 12)

\* A missing page that ends the loop.
BreakAtMissingPage(i, n) == n + 1

\* `continue` at a missing page: the loop goes on with the next field.
ContinueAtMissingPage(i, n) == i + 1

\* The download happens whatever the result.
AlwaysDownload(r) == TRUE

\* result.success && result.pdfBytes
ShouldDownload(r) == r.success /\ r.pdfBytes # None

\* The result of the catch clause.
Caught(message) == [success |-> FALSE, error |-> Some(message), pdfBytes |-> None]

\* PDFDocument.load and getPages: the document loads or the load throws; a
\* document without pages ends the call.
LoadDocument ==
  /\ fpc = "load"
  /\ \/ /\ result' = Some(Caught("load"))
        /\ thrown' = "load"
        /\ fpc' = "returned"
     \/ /\ Len(pages) = 0
        /\ result' = Some([success |-> FALSE, error |-> Some("PDF has no pages"),
                           pdfBytes |-> None])
        /\ fpc' = "returned"
        /\ UNCHANGED thrown
     \/ /\ Len(pages) # 0
        /\ fpc' = "font"
        /\ UNCHANGED <<result, thrown>>
  /\ UNCHANGED <<pages, fieldIndex, pdfX, pdfY, draws, downloaded>>
  /\ UNCHANGED <<wrapVars, appVars, viewerVars, validation, isMobile, editorVars,
                 labelVars, anchorPage>>

\* loadFont: the font is embedded or embedFont throws twice.
LoadFont ==
  /\ fpc = "font"
  /\ \/ /\ fpc' = "field"
        /\ fieldIndex' = 1
        /\ UNCHANGED <<result, thrown>>
     \/ /\ result' = Some(Caught("font"))
        /\ thrown' = "font"
        /\ fpc' = "returned"
        /\ UNCHANGED fieldIndex
  /\ UNCHANGED <<pages, pdfX, pdfY, draws, downloaded>>
  /\ UNCHANGED <<wrapVars, appVars, viewerVars, validation, isMobile, editorVars,
                 labelVars, anchorPage>>

\* A blank value that ends the loop.
BreakAtBlank(i, n) == n + 1

\* `continue` at a blank value: the loop goes on with the next field.
ContinueAtBlank(i, n) == i + 1

\* for (const field of fields): the loop is over, the field is skipped, or
\* wrapText is called with its value.
NextField ==
  /\ fpc = "field"
  /\ IF fieldIndex > Len(fields)
       THEN /\ fpc' = "save"
            /\ UNCHANGED <<fieldIndex, pdfX, pdfY, wrapVars>>
       ELSE LET field == fields[fieldIndex]
                value == ValueOf(formData, field.id)
            IN  IF IsBlank(value)
                  THEN /\ fieldIndex' = ContinueAtBlank(fieldIndex, Len(fields))
                       /\ UNCHANGED <<fpc, pdfX, pdfY, wrapVars>>
                  ELSE IF ~PageExists(pages, field)
                    THEN /\ fieldIndex' = ContinueAtMissingPage(fieldIndex, Len(fields))
                         /\ UNCHANGED <<fpc, pdfX, pdfY, wrapVars>>
                    ELSE /\ pdfX' = WriteX(field)
                         /\ pdfY' = WriteY(field, TargetPageHeight(pages, field))
                         /\ text' = value[1]
                         /\ maxWidth' = field.width - 4
                         /\ fontSize' = FontSizeOf(field.height)
                         /\ paragraphs' = Split(value[1], NL)
                         /\ words' = <<>>
                         /\ line' = <<>>
                         /\ allLines' = <<>>
                         /\ tempWord' = <<>>
                         /\ cutIndex' = 0
                         /\ wpc' = "paragraph"
                         /\ fpc' = "wrap"
                         /\ UNCHANGED fieldIndex
  /\ UNCHANGED <<pages, draws, result, downloaded, thrown>>
  /\ UNCHANGED <<appVars, viewerVars, validation, isMobile, editorVars,
                 labelVars, anchorPage>>

\* drawText calls that leave out the lines below the field's bottom edge.
DrawsOfClipped(i, field, px, py, lines, fs) ==
  LET all == [k \in DOMAIN lines |->
                [field |-> i, page |-> field.pageNumber, text |-> Trim(lines[k]),
                 x |-> px + 2,
                 y |-> (py + field.height - fs) * 10 - (k - 1) * fs * 12,
                 size |-> fs]]
  IN  SelectSeq(all, LAMBDA d : d.y >= py * 10)

\* The drawText calls for the lines of the field; y is held in tenths.
DrawsOf(i, field, px, py, lines, fs) ==
  [k \in DOMAIN lines |->
     [field |-> i, page |-> field.pageNumber, text |-> Trim(lines[k]),
      x |-> px + 2,
      y |-> (py + field.height - fs) * 10 - (k - 1) * fs * 12,
      size |-> fs]]

\* for (const line of lines) targetPage.drawText(...)
DrawLines ==
  /\ fpc = "wrap"
  /\ wpc = "done"
  /\ draws' = draws \o DrawsOf(fieldIndex, fields[fieldIndex], pdfX, pdfY,
                               allLines, fontSize)
  /\ fieldIndex' = fieldIndex + 1
  /\ fpc' = "field"
  /\ wpc' = "idle"
  /\ UNCHANGED <<pages, pdfX, pdfY, result, downloaded, thrown>>
  /\ UNCHANGED <<text, maxWidth, fontSize, paragraphs, words, line, allLines,
                 tempWord, cutIndex>>
  /\ UNCHANGED <<appVars, viewerVars, validation, isMobile, editorVars,
                 labelVars, anchorPage>>

\* pdfDoc.save(): the bytes (here: what was drawn), or it throws.
SaveDocument ==
  /\ fpc = "save"
  /\ \/ /\ result' = Some([success |-> TRUE, error |-> None, pdfBytes |-> Some(draws)])
        /\ UNCHANGED thrown
     \/ /\ result' = Some(Caught("save"))
        /\ thrown' = "save"
  /\ fpc' = "returned"
  /\ UNCHANGED <<pages, fieldIndex, pdfX, pdfY, draws, downloaded>>
  /\ UNCHANGED <<wrapVars, appVars, viewerVars, validation, isMobile, editorVars,
                 labelVars, anchorPage>>

\* fillAndDownloadPDF after fillPDF: downloadPDF runs (or throws) for a
\* result worth downloading.
Download ==
  /\ fpc = "returned"
  /\ IF ShouldDownload(result[1])
       THEN \/ downloaded' = TRUE /\ UNCHANGED thrown
            \/ thrown' = "download" /\ UNCHANGED downloaded
       ELSE UNCHANGED <<downloaded, thrown>>
  /\ fpc' = "done"
  /\ UNCHANGED <<pages, fieldIndex, pdfX, pdfY, draws, result>>
  /\ UNCHANGED <<wrapVars, appVars, viewerVars, validation, isMobile, editorVars,
                 labelVars, anchorPage>>

\* The fields, values and documents of the calls of fillAndDownloadPDF.
WideField(page) ==
  [id |-> "field_1", x |-> 100, y |-> 100, width |-> 200, height |-> 20,
   label |-> "Field 1", type |-> "text", pageNumber |-> page, multiline |-> None]

NarrowField(page) ==
  [id |-> "field_2", x |-> 50, y |-> 50, width |-> 40, height |-> 10,
   label |-> "Field 2", type |-> "text", pageNumber |-> page, multiline |-> None]

FillPageNumbers == 0..3

FillRegistries ==
  {<<WideField(p), NarrowField(q)>> : p \in FillPageNumbers, q \in FillPageNumbers}
    \cup {<<NarrowField(q), WideField(p)>> : p \in {1}, q \in FillPageNumbers}

FillValues ==
  {None, Some(<<>>), Some(<<SP>>), Some(<<"W">>), Some(<<"W", "W", SP, "W">>),
   Some(<<"i", NL, SP, "W">>)}

\* formData: a value for each id that has one.
FormDataOf(v1, v2) ==
  [id \in {i \in {"field_1", "field_2"} :
             (i = "field_1" /\ v1 # None) \/ (i = "field_2" /\ v2 # None)} |->
     IF id = "field_1" THEN v1[1] ELSE v2[1]]

FillDocuments == {<<>>, <<800>>, <<800, 600>>}

FillInit ==
  /\ pdfFile = Some("merged-document.pdf")
  /\ fields \in FillRegistries
  /\ \E v1 \in FillValues, v2 \in FillValues : formData = FormDataOf(v1, v2)
  /\ selectedFieldId = Null
  /\ templates = <<>>
  /\ savedRegistry = <<>>
  /\ localStorage = <<>>
  /\ isProcessing = TRUE
  /\ fillJob = None
  /\ notification = "none"
  /\ movable = FALSE
  /\ now = 1
  /\ lastUpdate = None
  /\ removedIds = {}
  /\ ViewerInit
  /\ EditorInit
  /\ WrapIdle
  /\ pages \in FillDocuments
  /\ fpc = "load"
  /\ fieldIndex = 0
  /\ pdfX = 0
  /\ pdfY = 0
  /\ draws = <<>>
  /\ result = None
  /\ downloaded = FALSE
  /\ thrown = "none"
  /\ validation = None

FillNext ==
  \/ LoadDocument
  \/ LoadFont
  \/ NextField
  \/ WrapStep
  \/ DrawLines
  \/ SaveDocument
  \/ Download

SpecFill == FillInit /\ [][FillNext]_vars

\* ----------------------------------------------- validateFormData on its own
TypedField(fid, type) ==
  [id |-> fid, x |-> 50, y |-> 50, width |-> 100, height |-> 20,
   label |-> fid, type |-> type, pageNumber |-> 1, multiline |-> None]

FieldTypes == {"text", "number", "date"}

ValidateRegistries ==
  {<<>>} \cup {<<TypedField("field_1", t)>> : t \in FieldTypes}
    \cup {<<TypedField("field_1", t), TypedField("field_2", u)>> :
            t \in FieldTypes, u \in FieldTypes}

TxtDate == <<"2", "0", "2", "4", "-", "0", "1", "-", "1", "5">>
TxtNoDate == <<"2", "0", "2", "4", "-", "1", "3", "-", "4", "5">>

\* Values whose reading by Number and by Date.parse does not depend on the
\* engine.
ValidateValues ==
  {None, Some(<<>>), Some(<<SP>>), Some(TxtAbc), Some(TxtDate), Some(TxtNoDate)}

NumberValues ==
  {Some(Txt42), Some(<<SP, "4", "2", SP>>), Some(<<"-", "4">>),
   Some(<<"4", ".", "2">>), Some(<<"4", "2", "a">>), Some(<<".">>)}

ValuesFor(field) ==
  IF field.type = "date" THEN ValidateValues ELSE ValidateValues \cup NumberValues

ValidateInit ==
  /\ fields \in ValidateRegistries
  /\ \E v1 \in ValidateValues \cup NumberValues, v2 \in ValidateValues \cup NumberValues :
       /\ Len(fields) > 0 => v1 \in ValuesFor(fields[1])
       /\ Len(fields) > 1 => v2 \in ValuesFor(fields[Len(fields)])
       /\ formData = FormDataOf(v1, v2)
  /\ pdfFile = Some("merged-document.pdf")
  /\ selectedFieldId = Null
  /\ templates = <<>>
  /\ savedRegistry = <<>>
  /\ localStorage = <<>>
  /\ isProcessing = FALSE
  /\ fillJob = None
  /\ notification = "none"
  /\ movable = FALSE
  /\ now = 1
  /\ lastUpdate = None
  /\ removedIds = {}
  /\ ViewerInit
  /\ EditorInit
  /\ WrapIdle
  /\ FillIdle
  /\ validation = None

\* The call of validateFormData.
Validate ==
  /\ validation = None
  /\ validation' = Some(validateFormData(fields, formData))
  /\ UNCHANGED <<wrapVars, appVars, viewerVars, fillVars, isMobile, editorVars,
                 labelVars, anchorPage>>

SpecValidate == ValidateInit /\ [][Validate]_vars

\* ----------------------------------------------------- claims on placing
\* The field a completed create gesture must add: first corner s, second
\* corner d, on page `page`.
GestureAdds(f, s, d, page) ==
  /\ f.x = Min(s.x, d.x)
  /\ f.y = Min(s.y, d.y)
  /\ f.width = Max(Abs(d.x - s.x), 100)
  /\ f.height = Max(Abs(d.y - s.y), 20)
  /\ f.pageNumber = page
  /\ (s = Point(50, 50) /\ d = Point(60, 55) /\ page = 1) =>
       /\ f.x = 50 /\ f.y = 50 /\ f.width = 100 /\ f.height = 20
       /\ f.pageNumber = 1

\* C1: every create gesture that completes (by the second click or by the end
\* of the touch) appends one field to the registry whose x and y are the
\* smaller coordinates of the two corners, whose width is the larger of the
\* horizontal span and 100, whose height is the larger of the vertical span
\* and 20, and whose page is the displayed page; the drag from (50,50) to
\* (60,55) on page 1 adds {x:50, y:50, width:100, height:20, pageNumber:1}.
C1_GestureGeometry ==
  [][\A p \in ClickPoints :
       ((HandlePageClick(p) \/ HandleTouchEnd(p)) /\ dragStart # None /\ dragStart' = None)
         => /\ Len(fields') = Len(fields) + 1
            /\ SubSeq(fields', 1, Len(fields)) = fields
            /\ GestureAdds(fields'[Len(fields')], dragStart[1],
                           PointerInDocument(p), pageNumber)]_vars

\* A field added by a gesture whose second corner lies left of and above its
\* first, with spans above the floors, on the second page.
C1_Witness ==
  \E i \in DOMAIN fields :
    /\ fields[i].id \notin Ids(staticFields)
    /\ fields[i].x = 60 /\ fields[i].y = 55
    /\ fields[i].width = 140 /\ fields[i].height = 145
    /\ fields[i].pageNumber = 2

\* ------------------------------------------------------ claims on dragging
UnknownUpdate == lastUpdate # None /\ ~lastUpdate[1].known

C7_LoadRestoresSaved ==
  /\ [](/\ Len(templates) = Len(savedRegistry)
        /\ \A k \in DOMAIN templates : templates[k].fields = savedRegistry[k]
        /\ templates = ParseTemplates(localStorage))
  /\ [][\A k \in DOMAIN templates :
          HandleTemplateLoad(k) => fields' = savedRegistry[k]]_vars

\* A template of several fields, saved at an earlier reading of the clock,
\* was loaded.
C7_Witness ==
  /\ notification = "Template loaded successfully"
  /\ pdfFile # None
  /\ \E k \in DOMAIN templates :
       /\ Len(savedRegistry[k]) > 1
       /\ fields = savedRegistry[k]
       /\ templates[k].createdAt < now

\* ------------------------------------------------- claims on fill requests
\* C6: a fill is in flight only with a registry and values that pass
\* validateFormData: no field blank, no number field holding a non-number,
\* no date field holding an unparsable date.
C6_FillOnlyWhenValid ==
  fillJob # None => validateFormData(fillJob[1].fields, fillJob[1].formData).isValid

\* C18: at most one fill is in flight, and while the in-progress flag is set
\* no fill starts.
C18_OneFillInFlight ==
  /\ [](Len(fillJob) <= 1)
  /\ [][isProcessing => Len(fillJob') <= Len(fillJob)]_vars

\* A fill is in flight, and the operator has since typed a value that a
\* second request would carry.
C18_Witness ==
  /\ isProcessing
  /\ Len(fillJob) = 1
  /\ fillJob[1].formData # formData
  /\ validateFormData(fields, formData).isValid

\* ------------------------------------------------------- claims on fillPDF
\* The fields fillPDF has a value and a page for.
HasValue(i) == ~IsBlank(ValueOf(formData, fields[i].id))
HasPage(i) == fields[i].pageNumber >= 1 /\ fields[i].pageNumber <= Len(pages)
DrawnFields == {draws[k].field : k \in DOMAIN draws}

\* C4: while a field with a value and a page is written, the write origin is
\* x = field.x and y = H - field.y - field.height with H the height of the
\* field's own page, and the field's first line is drawn from that origin
\* (2 to the right, on the baseline field.height - fontSize above it); the
\* field {x:100, y:100, width:200, height:20} on a page 800 high has y = 680.
C4_WriteOrigin ==
  /\ fpc = "wrap" =>
       LET f == fields[fieldIndex]
           H == pages[f.pageNumber]
       IN  /\ HasValue(fieldIndex) /\ HasPage(fieldIndex)
           /\ pdfX = f.x
           /\ pdfY = H - f.y - f.height
           /\ (f.x = 100 /\ f.y = 100 /\ f.width = 200 /\ f.height = 20 /\ H = 800)
                => pdfY = 680
  /\ \A k \in DOMAIN draws :
       LET f == fields[draws[k].field]
           H == pages[f.pageNumber]
       IN  /\ draws[k].x = f.x + 2
           /\ (k = 1 \/ draws[k - 1].field # draws[k].field)
                => draws[k].y = (H - f.y - draws[k].size) * 10

\* A field of the second page is being written after the field of the
\* example was drawn on the first.
C4_Witness ==
  /\ fpc = "wrap"
  /\ fields[fieldIndex].pageNumber = 2
  /\ pdfY = 540
  /\ Len(pages) = 2
  /\ \E k \in DOMAIN draws : fields[draws[k].field] = WideField(1) /\ draws[k].y = 6880

\* C9: when fillPDF got through (nothing thrown by the load, the font or the
\* save, a document with pages) with a field whose value is not blank and
\* whose page does not exist, the result is a success, no line of a field
\* without a page is drawn, and every field with a value and a page is drawn.
C9_MissingPageSkipsField ==
  (/\ fpc = "done"
   /\ thrown \in {"none", "download"}
   /\ Len(pages) > 0
   /\ \E i \in DOMAIN fields : HasValue(i) /\ ~HasPage(i))
    => /\ result[1].success
       /\ \A i \in DOMAIN fields :
            i \in DrawnFields <=> (HasValue(i) /\ HasPage(i))

\* The first field has a value and no page, the second was drawn, and the
\* result is a success.
C9_Witness ==
  /\ fpc = "done"
  /\ Len(fields) > 1
  /\ HasValue(1) /\ ~HasPage(1)
  /\ DrawnFields = {Len(fields)}
  /\ result[1].success
  /\ downloaded

\* C10: a fill whose load, font or save threw returns success = false with an
\* error and no bytes, and nothing is downloaded; a result with success = true
\* carries the bytes; a download happens only for such a result.
C10_FailureIsWhole ==
  /\ result = None => ~downloaded
  /\ result # None =>
       /\ thrown \in {"load", "font", "save"} =>
            /\ ~result[1].success
            /\ result[1].error # None
            /\ result[1].pdfBytes = None
            /\ ~downloaded
       /\ result[1].success => result[1].pdfBytes # None
       /\ downloaded => result[1].success

\* The save threw after lines were drawn: a failure without bytes, and no
\* download.
C10_Witness ==
  /\ fpc = "done"
  /\ thrown = "save"
  /\ Len(draws) > 0
  /\ ~result[1].success
  /\ ~downloaded

\* --------------------------------------------- claims on validateFormData
\* The values of the model that are numbers, and those that are dates.
NumericTexts == {Txt42, <<SP, "4", "2", SP>>, <<"-", "4">>, <<"4", ".", "2">>}
DateTexts == {TxtDate}

Offends(field) ==
  LET value == ValueOf(formData, field.id)
  IN  \/ value = None
      \/ Trim(value[1]) = <<>>
      \/ field.type = "number" /\ value[1] \notin NumericTexts
      \/ field.type = "date" /\ value[1] \notin DateTexts

\* C5: validateFormData returns isValid = false exactly when some field has no
\* value or a blank one, or is a number field whose value is not a number, or
\* is a date field whose value is not a date; a number field holding "abc"
\* fails and the same field holding "42" passes.
C5_ValidationExact ==
  validation # None =>
    /\ validation[1].isValid <=> ~ \E i \in DOMAIN fields : Offends(fields[i])
    /\ (fields = <<TypedField("field_1", "number")>> /\ formData = FormDataOf(Some(TxtAbc), None))
         => ~validation[1].isValid
    /\ (fields = <<TypedField("field_1", "number")>> /\ formData = FormDataOf(Some(Txt42), None))
         => validation[1].isValid

\* A number field holding "42" and a date field holding 2024-13-45: the one
\* error is the date's.
C5_Witness ==
  /\ validation # None
  /\ fields = <<TypedField("field_1", "number"), TypedField("field_2", "date")>>
  /\ formData = FormDataOf(Some(Txt42), Some(TxtNoDate))
  /\ ~validation[1].isValid
  /\ Len(validation[1].errors) = 1


\* ------------------------------------------------------- the field editor
\* FormBuilder's effect on [selectedFieldId, fields]: it runs after a render
\* that changed one of them, before the next event is handled, and the editor
\* follows the selected field.
EffectsFlushed == effectDeps = <<selectedFieldId, fields>>

FormBuilderEffect ==
  /\ Rendered
  /\ ~EffectsFlushed
  /\ effectDeps' = <<selectedFieldId, fields>>
  /\ IF selectedFieldId # Null
       THEN IF FindField(fields, selectedFieldId) # None
              THEN /\ editingField' = FindField(fields, selectedFieldId)
                   /\ showFieldEditor' = TRUE
              ELSE UNCHANGED <<editingField, showFieldEditor>>
       ELSE /\ showFieldEditor' = FALSE
            /\ editingField' = None
  /\ UNCHANGED <<appVars, viewerVars, engineVars, isMobile,
                 labelVars, anchorPage>>

\* handleFieldEdit, from the gear button of the k-th field of the list.
HandleFieldEdit(k) ==
  /\ Rendered
  /\ ~isDragging
  /\ k \in DOMAIN fields
  /\ editingField' = Some(fields[k])
  /\ showFieldEditor' = TRUE
  /\ UNCHANGED <<effectDeps, appVars, viewerVars, engineVars, isMobile,
                 labelVars, anchorPage>>

\* What the Width and Height inputs of the editor may hold: nothing that
\* parses, or a number.
EditorWidths == {None, Some(0), Some(10), Some(60)}
EditorHeights == {None, Some(0), Some(10)}

\* parseFloat(e.target.value) || fallback
ParseFloatOr(input, fallback) ==
  IF input = None \/ input[1] = 0 THEN fallback ELSE input[1]

\* An input of the editor: setEditingField({ ...editingField, ...change }).
SetEditingField(change) ==
  /\ Rendered
  /\ ~isDragging
  /\ showFieldEditor /\ editingField # None
  /\ editingField' = Some(Spread(editingField[1], change))
  /\ UNCHANGED <<showFieldEditor, effectDeps, appVars, viewerVars, engineVars,
                 isMobile,
                 labelVars, anchorPage>>

\* The Width input of the editor.
EditWidth(input) == SetEditingField([width |-> ParseFloatOr(input, 100)])

\* The Height input of the editor.
EditHeight(input) == SetEditingField([height |-> ParseFloatOr(input, 20)])

\* The Field Type select of the editor.
EditType(type) == SetEditingField([type |-> type])

\* The Field Label input of the editor.
EditLabel(label) == SetEditingField([label |-> label])

\* handleFieldSave: the whole edited field is passed as the update, and the
\* editor closes.
HandleFieldSave ==
  /\ Rendered
  /\ ~isDragging
  /\ showFieldEditor /\ editingField # None
  /\ onFieldUpdate(editingField[1].id, editingField[1])
  /\ editingField' = None
  /\ showFieldEditor' = FALSE
  /\ UNCHANGED <<effectDeps, pdfFile, selectedFieldId, formData, templates, isProcessing,
                 notification, movable, localStorage, now, fillJob,
                 savedRegistry, removedIds, viewerVars, engineVars, isMobile,
                 labelVars, anchorPage>>

\* handleFieldCancel
HandleFieldCancel ==
  /\ Rendered
  /\ ~isDragging
  /\ showFieldEditor
  /\ showFieldEditor' = FALSE
  /\ editingField' = None
  /\ UNCHANGED <<effectDeps, appVars, viewerVars, engineVars, isMobile,
                 labelVars, anchorPage>>

\* ------------------------------------------------------- resizing a field
Directions == {"se", "sw", "ne", "nw"}

\* How far inside the field's corner the pointer lies on a resize handle: on
\* the corner itself.
HandleInsets == {0}

\* Where the pointer lies on the handle of a corner of the field, in view
\* space.
OnHandle(field, direction, inset) ==
  Point(((IF direction \in {"se", "ne"} THEN field.x + field.width - inset
                                        ELSE field.x + inset) * scale) \div 10,
        ((IF direction \in {"se", "sw"} THEN field.y + field.height - inset
                                        ELSE field.y + inset) * scale) \div 10)

\* The switch of handleFieldResize, with no lower limit on the size.
ResizedUnclamped(field, direction, m) ==
  CASE direction = "se" -> [width |-> m.x - field.x, height |-> m.y - field.y]
    [] direction = "sw" -> [x |-> m.x, width |-> field.x + field.width - m.x]
    [] direction = "ne" -> [y |-> m.y, height |-> field.y + field.height - m.y]
    [] direction = "nw" -> [x |-> m.x, y |-> m.y,
                            width |-> field.x + field.width - m.x,
                            height |-> field.y + field.height - m.y]

\* The switch of handleFieldResize: the updates a handle gives for the pointer
\* at m (document space).
Resized(field, direction, m) ==
  CASE direction = "se" ->
         [width |-> Max(m.x - field.x, 50), height |-> Max(m.y - field.y, 20)]
    [] direction = "sw" ->
         [x |-> Min(m.x, field.x + field.width - 50),
          width |-> Max(field.x + field.width - m.x, 50)]
    [] direction = "ne" ->
         [y |-> Min(m.y, field.y + field.height - 20),
          height |-> Max(field.y + field.height - m.y, 20)]
    [] direction = "nw" ->
         [x |-> Min(m.x, field.x + field.width - 50),
          y |-> Min(m.y, field.y + field.height - 20),
          width |-> Max(field.x + field.width - m.x, 50),
          height |-> Max(field.y + field.height - m.y, 20)]

\* handleFieldResize, from the mousedown on a handle of the selected field
\* (the handles are shown while the page is movable).
HandleFieldResize(fieldId, direction, inset) ==
  /\ Rendered
  /\ ~isDragging
  /\ movable /\ selectedFieldId = fieldId
  /\ FindField(fields, fieldId) # None
  /\ Displayed(FindField(fields, fieldId)[1])
  /\ LET field == FindField(fields, fieldId)[1]
         m == PointerInDocument(OnHandle(field, direction, inset))
     IN  /\ m.x >= 0 /\ m.y >= 0
         /\ onFieldUpdate(fieldId, Resized(field, direction, m))
  /\ UNCHANGED <<pdfFile, selectedFieldId, formData, templates, isProcessing,
                 notification, movable, localStorage, now, fillJob,
                 savedRegistry, removedIds, viewerVars, engineVars, isMobile, editorVars,
                 labelVars, anchorPage>>


\* --------------------------------------------------- editing the registry
\* The operator works on the registry with the list and the editor of
\* FormBuilder, mounted under App's handlers, and with the handles of the
\* page.
EditRegistries == {staticFields}

EditInit ==
  /\ \E registry \in EditRegistries : AppInitWith(registry)
  /\ ViewerInit
  /\ EditorInit
  /\ EngineIdle

\* The editor is a modal over the page and the list: while it shows, only its
\* own controls are reached.
PageReached == EffectsFlushed /\ ~showFieldEditor
EditorReached == EffectsFlushed /\ showFieldEditor

EditNext ==
  \/ LoadPdf
  \/ FormBuilderEffect
  \/ PageReached /\ MovableToggle
  \/ \E id \in Ids(fields) : PageReached /\ HandleFieldSelect(id)
  \/ \E id \in Ids(fields) : PageReached /\ HandleFieldDelete(id)
  \/ \E k \in DOMAIN fields : PageReached /\ HandleFieldEdit(k)
  \/ \E input \in EditorWidths : EditorReached /\ EditWidth(input)
  \/ \E input \in EditorHeights : EditorReached /\ EditHeight(input)
  \/ EditorReached /\ HandleFieldSave
  \/ EditorReached /\ HandleFieldCancel
  \/ \E id \in Ids(fields), direction \in Directions, inset \in HandleInsets :
       PageReached /\ HandleFieldResize(id, direction, inset)

SpecEdit == EditInit /\ [][EditNext]_vars

\* C11: in every reachable state every field of the registry is at least 50
\* wide and 20 high.
C11_MinimumSize ==
  \A i \in DOMAIN fields : fields[i].width >= 50 /\ fields[i].height >= 20


\* ------------------------------------------------- the registry over time
\* The operator places and deletes fields, saves and loads a template and
\* reloads the page, while the clock may or may not have moved
\* between two events.
\* Where the operator clicks the page: two free spots, far enough apart for
\* two fields.
RegistryClicks == {Point(50, 50), Point(50, 100)}

RegistryInit ==
  /\ AppInit
  /\ ViewerInit
  /\ EditorInit
  /\ EngineIdle

RegistryNext ==
  \/ Tick
  \/ LoadPdf
  \/ MovableToggle
  \/ ToggleAddField
  \/ \E p \in RegistryClicks : HandlePageClick(p)
  \/ \E id \in Ids(fields) : HandleFieldDelete(id)
  \/ Len(templates) = 0 /\ HandleTemplateSave
  \/ \E k \in DOMAIN templates : HandleTemplateLoad(k)
  \/ Reload

SpecRegistry == RegistryInit /\ [][RegistryNext]_vars

\* C12: the registry never holds two fields with the same id.
C12_IdsUnique ==
  \A i, j \in DOMAIN fields : fields[i].id = fields[j].id => i = j


OwnClicks == {Point(50, 50)}
OwnInsets == {3}

\* The operator edits the fields of the static configuration, and no handle
\* is pulled in by more than MaxShrink.
Editable == Ids(staticFields) \cap Ids(fields)
Resizable(id) == \A i \in DOMAIN fields :
                   fields[i].id = id => fields[i].width > 100 - MaxShrink

OwnInit ==
  /\ AppInit
  /\ ViewerInit
  /\ EditorInit
  /\ EngineIdle

OwnNext ==
  \/ LoadPdf
  \/ ~showFieldEditor /\ MovableToggle
  \/ ~showFieldEditor /\ Len(templates) = 0 /\ HandleTemplateSave
  \/ ~showFieldEditor /\ ToggleAddField
  \/ \E p \in OwnClicks : ~showFieldEditor /\ HandlePageClick(p)
  \/ \E id \in Editable : ~showFieldEditor /\ HandleFieldMouseDown(id)
  \/ \E p \in OwnClicks : ~showFieldEditor /\ HandleMouseMove(p)
  \/ HandleMouseUp
  \/ \E id \in Editable, direction \in Directions, inset \in OwnInsets :
       ~showFieldEditor /\ Resizable(id) /\ HandleFieldResize(id, direction, inset)
  \/ \E k \in DOMAIN fields :
       ~showFieldEditor /\ fields[k].id \in Editable /\ HandleFieldEdit(k)
  \/ EditType("date")
  \/ EditLabel("Date")
  \/ HandleFieldSave
  \/ \E id \in Ids(fields) : ~showFieldEditor /\ HandleFieldDelete(id)

SpecOwn == OwnInit /\ [][OwnNext]_vars


\* C14: once a template is saved, no later edit of the registry (a drag, a
\* resize, a new label or type, an added or a deleted field) changes the
\* fields the template holds: they stay the registry it was saved from.
C14_TemplateKeepsItsFields ==
  [][\A k \in DOMAIN templates :
       /\ k \in DOMAIN templates'
       /\ templates'[k].fields = templates[k].fields
       /\ templates'[k].fields = savedRegistry[k]]_vars

\* A template is stored, and an update has since changed a field of the
\* registry, which no longer is the registry the template was saved from.
C14_Witness ==
  /\ Len(templates) = 1
  /\ templates[1].fields = savedRegistry[1]
  /\ Len(fields) = Len(templates[1].fields)
  /\ fields # templates[1].fields
  /\ lastUpdate # None /\ lastUpdate[1].changed


\* ------------------------------------------- the form values over time
\* The operator places a field, fills in values, deletes fields, saves and
\* loads a template and reloads the page.
ValuesClicks == {Point(50, 50)}

ValuesNext ==
  \/ Tick
  \/ LoadPdf
  \/ MovableToggle
  \/ ToggleAddField
  \/ \E p \in ValuesClicks : HandlePageClick(p)
  \/ \E id \in Ids(fields) : HandleFieldDelete(id)
  \/ \E id \in Ids(fields) : HandleFormDataChange(id, TxtAbc)
  \/ Len(templates) = 0 /\ HandleTemplateSave
  \/ \E k \in DOMAIN templates : HandleTemplateLoad(k)
  \/ Reload

SpecValues == RegistryInit /\ [][ValuesNext]_vars

\* C15: the form values follow the registry.  Every key of the map is the id
\* of a field of the registry; the add that ends a create gesture gives the
\* new field's id the empty string; a delete takes the id's entry away; a
\* template load leaves the map empty.
C15_FormDataFollowsRegistry ==
  /\ [](DOMAIN formData \subseteq Ids(fields))
  /\ [][/\ \A p \in ValuesClicks :
             HandlePageClick(p) /\ dragStart # None =>
               /\ Len(fields') = Len(fields) + 1
               /\ fields'[Len(fields')].id \in DOMAIN formData'
               /\ formData'[fields'[Len(fields')].id] = <<>>
        /\ \A id \in Ids(fields) :
             HandleFieldDelete(id) => id \notin DOMAIN formData'
        /\ \A k \in DOMAIN templates :
             HandleTemplateLoad(k) => formData' = EmptyData]_vars

\* The registry has lost a field and holds a placed one, whose value is the
\* empty string, while the map has a key.
C15_Witness ==
  /\ removedIds # {}
  /\ \E i \in DOMAIN fields :
       /\ fields[i].id \notin Ids(staticFields)
       /\ fields[i].id \in DOMAIN formData
       /\ formData[fields[i].id] = <<>>


\* ------------------------------------------------------- the scale controls
\* The effect on [scale] and the resize listener: checkMobile at a viewport
\* that is narrow (`mobile`) or wide.
CheckMobile(mobile) ==
  /\ isMobile' = mobile
  /\ scale' = IF mobile /\ scale > 8 THEN 8
              ELSE IF ~mobile /\ scale < 10 THEN 10
              ELSE scale
  /\ UNCHANGED <<appVars, engineVars, numPages, pageNumber, isAddingField,
                 dragStart, newField, isDragging, dragFieldId, dragOffset,
                 editorVars,
                 labelVars, anchorPage>>

\* The scale has changed and checkMobile has not yet looked at it.
ScalePending == (isMobile /\ scale > 8) \/ (~isMobile /\ scale < 10)

\* The effect runs after the render that followed a change of the scale; the
\* viewport is the one checkMobile saw last.
CheckMobileEffect ==
  /\ Rendered
  /\ ScalePending
  /\ CheckMobile(isMobile)

\* The window is resized across the 768 px line (or the viewer is mounted in
\* a narrow window).
ResizeViewport(mobile) ==
  /\ Rendered
  /\ ~ScalePending
  /\ mobile # isMobile
  /\ CheckMobile(mobile)

ZoomedOutUnclamped(s) == s - 1

\* Math.max(0.3, scale - 0.1)
ZoomedOut(s) == Max(3, s - 1)

\* Math.min(isMobile ? 1.2 : 2.0, scale + 0.1)
ZoomedIn(s, mobile) == Min(IF mobile THEN 12 ELSE 20, s + 1)

SetScale(s) ==
  /\ scale' = s
  /\ UNCHANGED <<appVars, engineVars, numPages, pageNumber, isAddingField,
                 dragStart, newField, isDragging, dragFieldId, dragOffset,
                 isMobile, editorVars,
                 labelVars, anchorPage>>

\* The - button of the scale controls.
ZoomOut ==
  /\ Rendered
  /\ ~ScalePending
  /\ SetScale(ZoomedOut(scale))

\* The + button of the scale controls.
ZoomIn ==
  /\ Rendered
  /\ ~ScalePending
  /\ SetScale(ZoomedIn(scale, isMobile))

ToViewSpaceUnscaled(d, s) == d

\* left: field.x * scale, top: field.y * scale
ToViewSpace(d, s) == (d * s) \div 10

\* Pointer positions on the page, in parts of a pixel.
ZoomPoints == {Point(50 * Unit, 50 * Unit), Point(12345, 67891),
               Point(300 * Unit + 1, 7)}

\* The registry is empty; the operator zooms, resizes the window and starts
\* create gestures.
ZoomInit ==
  /\ AppInitWith(<<>>)
  /\ ViewerInit
  /\ EditorInit
  /\ EngineIdle

ZoomNext ==
  \/ LoadPdf
  \/ MovableToggle
  \/ ~ScalePending /\ ToggleAddField
  \/ ZoomOut
  \/ ZoomIn
  \/ \E mobile \in BOOLEAN : ResizeViewport(mobile)
  \/ CheckMobileEffect
  \/ \E p \in ZoomPoints : ~ScalePending /\ dragStart = None /\ HandlePageClick(p)

SpecZoom == ZoomInit /\ [][ZoomNext]_vars

\* C16: a view position turned into document space by the click handler and
\* back into view space by the overlay's style, at the same scale, is the
\* view position again, up to Tolerance parts of a pixel: the overlay of the
\* field a click starts is drawn where the click was.
C16_RoundTrip ==
  [][\A p \in ZoomPoints :
       HandlePageClick(p) /\ dragStart = None =>
         /\ newField' # None
         /\ scale' = scale
         /\ Abs(ToViewSpace(newField'[1].x, scale') - p.x) <= Tolerance
         /\ Abs(ToViewSpace(newField'[1].y, scale') - p.y) <= Tolerance]_vars

\* A gesture has started at a scale other than 1.0 that does not divide the
\* click's position.
C16_Witness ==
  /\ dragStart # None
  /\ newField # None
  /\ scale = 3
  /\ newField[1].x = ToDocumentSpace(50 * Unit, 3)
  /\ ToViewSpace(newField[1].x, scale) # 50 * Unit

\* C17: the scale is at least 0.3 and at most 2.0.
C17_ScaleInRange == 3 <= scale /\ scale <= 20

\* The scale has been taken down to 0.3 in a narrow window.
C17_Witness == isMobile /\ scale = 3 /\ ~ScalePending

\* --------------------------------------------- the order of the fill loop
\* C20: the lines fillPDF draws follow the order of the registry; no line is
\* drawn for a field whose value is absent or blank after trimming; and when
\* the loop is over every field with a value and a page has been drawn,
\* whatever was skipped before it.
C20_RegistryOrderSkipsBlank ==
  /\ \A a, b \in DOMAIN draws : a < b => draws[a].field <= draws[b].field
  /\ \A k \in DOMAIN draws : HasValue(draws[k].field)
  /\ fpc = "save" =>
       \A i \in DOMAIN fields : (HasValue(i) /\ HasPage(i)) => i \in DrawnFields

\* The first field's value is a space and the field has a page; the second
\* field was drawn and the first was not.
C20_Witness ==
  /\ fpc = "done"
  /\ Len(fields) = 2
  /\ ValueOf(formData, fields[1].id) = Some(<<SP>>)
  /\ HasPage(1)
  /\ DrawnFields = {2}
  /\ result[1].success

\* The fields the loop passed over: no value, or no page.
SkippedFields == {i \in DOMAIN fields : ~HasValue(i) \/ ~HasPage(i)}

\* C21: a successful result tells its caller of the fields that were skipped:
\* PDFFillResult has success, error and pdfBytes, so the report would be in
\* error.
C21_SkippedFieldsReported ==
  (fpc = "done" /\ result # None /\ result[1].success /\ SkippedFields # {})
    => result[1].error # None

\* ------------------------------------------------- editing a label
\* A label and a draft are strings; White is what trim() takes off.
White == {" "}

RECURSIVE StringTrimStart(_)
StringTrimStart(s) ==
  IF Len(s) > 0 /\ SubSeq(s, 1, 1) \in White
    THEN StringTrimStart(SubSeq(s, 2, Len(s)))
    ELSE s

RECURSIVE StringTrimEnd(_)
StringTrimEnd(s) ==
  IF Len(s) > 0 /\ SubSeq(s, Len(s), Len(s)) \in White
    THEN StringTrimEnd(SubSeq(s, 1, Len(s) - 1))
    ELSE s

\* A commit that takes the draft as it is.
Untrimmed(s) == s

\* editingLabel.trim()
TrimString(s) == StringTrimEnd(StringTrimStart(s))

\* handleFieldDoubleClick
HandleFieldDoubleClick(fieldId) ==
  /\ Rendered
  /\ movable
  /\ \E i \in DOMAIN fields : fields[i].id = fieldId /\ Displayed(fields[i])
  /\ editingFieldId' = fieldId
  /\ editingLabel' = FindField(fields, fieldId)[1].label
  /\ UNCHANGED <<appVars, viewerVars, engineVars, isMobile, editorVars, anchorPage>>

\* onChange of the label input
SetEditingLabel(draft) ==
  /\ Rendered
  /\ editingFieldId # Null
  /\ editingLabel' = draft
  /\ UNCHANGED <<editingFieldId, appVars, viewerVars, engineVars, isMobile, editorVars, anchorPage>>

\* handleLabelSave, from the Enter key and from the blur of the input
HandleLabelSave ==
  /\ Rendered
  /\ editingFieldId # Null
  /\ IF TrimString(editingLabel) # ""
       THEN onFieldUpdate(editingFieldId, [label |-> TrimString(editingLabel)])
       ELSE UNCHANGED <<fields, lastUpdate>>
  /\ editingFieldId' = Null
  /\ editingLabel' = ""
  /\ UNCHANGED <<pdfFile, selectedFieldId, formData, templates, isProcessing,
                 notification, movable, localStorage, now, fillJob,
                 savedRegistry, removedIds, viewerVars, engineVars, isMobile,
                 editorVars, anchorPage>>

\* handleLabelCancel, from the Escape key
HandleLabelCancel ==
  /\ Rendered
  /\ editingFieldId # Null
  /\ editingFieldId' = Null
  /\ editingLabel' = ""
  /\ UNCHANGED <<appVars, viewerVars, engineVars, isMobile, editorVars, anchorPage>>

\* What the operator types into the label input.
Drafts == {"", "  ", " Name ", "Div 2 "}

\* The operator opens the label of a field on the page, types and commits or
\* cancels; a double-click on another field takes the focus from the input,
\* whose blur commits first.
LabelNext ==
  \/ LoadPdf
  \/ MovableToggle
  \/ \E id \in Ids(fields) :
       editingFieldId \in {Null, id} /\ HandleFieldDoubleClick(id)
  \/ \E draft \in Drafts : SetEditingLabel(draft)
  \/ HandleLabelSave
  \/ HandleLabelCancel

SpecLabel == DragInit /\ [][LabelNext]_vars

\* t is d without the white space at its ends.
IsTrimOf(t, d) ==
  /\ Len(t) > 0 => SubSeq(t, 1, 1) \notin White /\ SubSeq(t, Len(t), Len(t)) \notin White
  /\ \E a \in 0..Len(d) :
       /\ a + Len(t) <= Len(d)
       /\ SubSeq(d, a + 1, a + Len(t)) = t
       /\ \A k \in (1..a) \cup ((a + Len(t) + 1)..Len(d)) : SubSeq(d, k, k) \in White

\* C29: a double-click on a field opens its label with the draft equal to
\* the label; a commit gives the field the draft without the white space at
\* its ends when that is not empty, and leaves the label when it is; a
\* cancel leaves the label; commit and cancel close the editor, and none of
\* the three changes anything else of any field.
C29_LabelEditing ==
  [][/\ \A id \in Ids(fields) :
          HandleFieldDoubleClick(id) =>
            /\ editingFieldId' = id
            /\ editingLabel' = FindField(fields, id)[1].label
            /\ fields' = fields
     /\ HandleLabelSave =>
          /\ editingFieldId' = Null /\ editingLabel' = ""
          /\ Len(fields') = Len(fields)
          /\ \A i \in DOMAIN fields :
               IF fields[i].id = editingFieldId /\ ~IsTrimOf("", editingLabel)
                 THEN /\ IsTrimOf(fields'[i].label, editingLabel)
                      /\ fields'[i] = [fields[i] EXCEPT !.label = fields'[i].label]
                 ELSE fields'[i] = fields[i]
     /\ HandleLabelCancel =>
          /\ editingFieldId' = Null /\ editingLabel' = ""
          /\ fields' = fields]_vars

\* The draft " Name " was committed: the field is labelled "Name", the other
\* field as before, and the editor is closed.
C29_Witness ==
  /\ editingFieldId = Null
  /\ editingLabel = ""
  /\ lastUpdate # None /\ lastUpdate[1].changed
  /\ Len(fields) > 1
  /\ \E i \in DOMAIN fields :
       /\ fields[i].id = lastUpdate[1].id
       /\ fields[i].label = "Name"
       /\ \A j \in DOMAIN fields : j # i => fields[j].label # "Name"

\* ------------------------------------------------- the offset of a drag
\* C25: the offset of a drag is the pointer's position less the field's at
\* the pointer-down and stays what it is while the drag lasts; a drag-move
\* puts the dragged field at the pointer's position less the offset and
\* changes nothing but the x and y of that field.
C25_DragKeepsOffset ==
  [][/\ \A id \in Ids(fields) :
          (HandleFieldMouseDown(id) \/ HandleFieldTouchStart(id)) =>
            LET f == FindField(fields, id)[1]
                m == PointerInDocument(Point(f.x + GrabOffset.x, f.y + GrabOffset.y))
            IN  dragOffset' = Some(Point(m.x - f.x, m.y - f.y))
     /\ (isDragging /\ isDragging') => dragOffset' = dragOffset
     /\ \A p \in ClickPoints :
          ((HandleMouseMove(p) \/ HandleTouchMove(p)) /\ isDragging) =>
            LET m == PointerInDocument(p)
            IN  /\ Len(fields') = Len(fields)
                /\ \A i \in DOMAIN fields :
                     IF fields[i].id = dragFieldId
                       THEN fields'[i] = [fields[i] EXCEPT
                                            !.x = m.x - dragOffset[1].x,
                                            !.y = m.y - dragOffset[1].y]
                       ELSE fields'[i] = fields[i]]_vars

\* A field taken at 18 by 6 from its corner has been dragged to the pointer
\* at (200,200), another field lying where it lay.
C25_Witness ==
  /\ isDragging
  /\ dragOffset = Some(GrabOffset)
  /\ Len(fields) > 1
  /\ \E i \in DOMAIN fields :
       /\ fields[i].id = dragFieldId
       /\ fields[i].x = 200 - 18 /\ fields[i].y = 200 - 6
       /\ fields[i].width = 100 /\ fields[i].height = 20
  /\ \E i \in DOMAIN fields : fields[i].id # dragFieldId /\ fields[i] = staticFields[1]

\* ---------------------------------------------------- the end of a drag
\* C26: a drag ends at the next pointer-up, wherever the pointer is: the
\* pointer-up is handled in every state with a drag, after it no field is
\* dragged and no offset is kept, and with no drag no pointer-move changes
\* the registry.
C26_PointerUpEndsDrag ==
  /\ [](isDragging => ENABLED HandleMouseUp)
  /\ [](~isDragging => dragFieldId = Null /\ dragOffset = None)
  /\ [][(isDragging /\ (HandleMouseUp \/ \E p \in ClickPoints : HandleTouchEnd(p)))
          => ~isDragging' /\ dragFieldId' = Null /\ dragOffset' = None]_vars
  /\ [][(~isDragging /\ \E p \in ClickPoints : HandleMouseMove(p) \/ HandleTouchMove(p))
          => fields' = fields]_vars

\* A field was dragged away from its place and the drag is over.
C26_Witness ==
  /\ ~isDragging
  /\ dragFieldId = Null
  /\ lastUpdate # None /\ lastUpdate[1].changed
  /\ \E i \in DOMAIN fields :
       /\ fields[i].id = lastUpdate[1].id
       /\ fields[i].id = selectedFieldId
       /\ fields[i].x = 200 - 18

\* ------------------------------------------------------- the delete key
\* C27: the Delete (or Backspace) key, pressed with a field selected and the
\* focus outside the inputs, removes the selected field and leaves no drag
\* and no pending create anchor behind.
C27_DeleteKeyLeavesIdle ==
  [][\A key \in {"Delete", "Backspace"} :
       HandleKeyDown(key, FALSE) =>
         /\ selectedFieldId \notin Ids(fields')
         /\ ~isDragging' /\ dragFieldId' = Null /\ dragOffset' = None
         /\ dragStart' = None]_vars

\* ------------------------------------------------------- the arrow keys
ArrowKeys == {"ArrowUp", "ArrowDown", "ArrowLeft", "ArrowRight"}

\* Where the pointer drags a field to: near the page's corner, and back.
NudgePoints == {Point(10, 3), Point(200, 200)}

\* The selected field lies near the page's corner.
NearCorner ==
  /\ FindField(fields, selectedFieldId) # None
  /\ FindField(fields, selectedFieldId)[1].x <= MaxNudged
  /\ FindField(fields, selectedFieldId)[1].y <= MaxNudged

\* The operator drags a field and moves it with the arrow keys, with and
\* without Shift.
NudgeNext ==
  \/ LoadPdf
  \/ MovableToggle
  \/ \E id \in Ids(fields) : HandleFieldMouseDown(id)
  \/ \E p \in NudgePoints : HandleMouseMove(p)
  \/ HandleMouseUp
  \/ \E key \in ArrowKeys, shiftKey \in BOOLEAN :
       ~isDragging /\ NearCorner /\ HandleKeyDown(key, shiftKey)

SpecNudge == Init /\ [][NudgeNext]_vars

\* C28: an arrow key moves the selected field by 1, or by 10 with Shift,
\* along the key's axis (less where the field would pass 0) and leaves the
\* other coordinate alone, and after it the field has x >= 0 and y >= 0.
C28_NudgeStaysOnPage ==
  [][\A key \in ArrowKeys, shiftKey \in BOOLEAN :
       HandleKeyDown(key, shiftKey) =>
         LET f == FindField(fields, selectedFieldId)[1]
             g == FindField(fields', selectedFieldId)[1]
             step == IF shiftKey THEN 10 ELSE 1
         IN  /\ g.x >= 0 /\ g.y >= 0
             /\ key = "ArrowUp" => g.x = f.x /\ g.y = Max(0, f.y - step)
             /\ key = "ArrowDown" => g.x = f.x /\ g.y = f.y + step
             /\ key = "ArrowLeft" => g.y = f.y /\ g.x = Max(0, f.x - step)
             /\ key = "ArrowRight" => g.y = f.y /\ g.x = f.x + step]_vars

\* ------------------------------------------------------ one gesture at once
\* C22: no state has both a pending create anchor and an active field drag.
C22_OneGestureAtATime == ~(dragStart # None /\ isDragging)

\* ------------------------------------------------- claims on resizing
\* The corner of f opposite to the handle of direction d is where it is in g.
OppositeCornerKept(f, g, d) ==
  /\ IF d \in {"se", "ne"} THEN g.x = f.x ELSE g.x + g.width = f.x + f.width
  /\ IF d \in {"se", "sw"} THEN g.y = f.y ELSE g.y + g.height = f.y + f.height

\* The corner of g at the handle of direction d is at m, or as near to m as
\* the width of 50 and the height of 20 allow.
DraggedCornerAt(f, g, d, m) ==
  /\ IF d \in {"se", "ne"} THEN g.x + g.width = Max(m.x, f.x + 50)
                            ELSE g.x = Min(m.x, f.x + f.width - 50)
  /\ IF d \in {"se", "sw"} THEN g.y + g.height = Max(m.y, f.y + 20)
                            ELSE g.y = Min(m.y, f.y + f.height - 20)

\* C23: a resize update keeps the corner opposite to its handle where it was
\* and puts the handle's corner at the pointer in both axes, the width held
\* at 50 or more and the height at 20 or more.
C23_ResizeFollowsPointer ==
  [][\A id \in Ids(fields), d \in Directions, inset \in OwnInsets :
       HandleFieldResize(id, d, inset) =>
         LET f == FindField(fields, id)[1]
             g == FindField(fields', id)[1]
             m == PointerInDocument(OnHandle(f, d, inset))
         IN  OppositeCornerKept(f, g, d) /\ DraggedCornerAt(f, g, d, m)]_vars

\* A pointer-move that the viewer handles by giving the field another size.
MoveResizes(id) ==
  \E p \in OwnClicks :
    /\ HandleMouseMove(p)
    /\ FindField(fields', id) # None
    /\ \/ FindField(fields', id)[1].width # FindField(fields, id)[1].width
       \/ FindField(fields', id)[1].height # FindField(fields, id)[1].height

\* C24: the pointer-down on a resize handle of the selected field starts a
\* resize gesture: it starts no drag, and the pointer-move that follows it is
\* handled as a resize of the field.
C24_HandleStartsResizeGesture ==
  [][\A id \in Ids(fields), d \in Directions, inset \in OwnInsets :
       HandleFieldResize(id, d, inset) =>
         /\ ~isDragging'
         /\ (ENABLED MoveResizes(id))']_vars

\* ------------------------------------------------- a fill from click to end
\* The documents the fill loads, as page heights.
RunDocuments == {<<800>>}

\* await PDFFiller.fillAndDownloadPDF(pdfFile, fields, formData, ...): the
\* call starts with the registry and the values of the click.
FillBegins ==
  /\ fillJob # None
  /\ fpc = "idle"
  /\ fields = fillJob[1].fields
  /\ formData = fillJob[1].formData
  /\ pages' \in RunDocuments
  /\ fpc' = "load"
  /\ UNCHANGED <<fieldIndex, pdfX, pdfY, draws, result, downloaded, thrown>>
  /\ UNCHANGED <<wrapVars, appVars, viewerVars, validation, isMobile, editorVars,
                 labelVars, anchorPage>>

\* The notification of the try and catch clauses.
FillNotification ==
  IF thrown = "download" THEN "An error occurred while processing the PDF"
  ELSE IF result[1].success THEN "PDF filled and downloaded successfully"
  ELSE "Failed to fill PDF"

\* The call has settled: the operator is notified and the finally clause
\* clears the flag.
FillReturns ==
  /\ fillJob # None
  /\ fpc = "done"
  /\ notification' = FillNotification
  /\ isProcessing' = FALSE
  /\ fillJob' = Tail(fillJob)
  /\ pages' = <<>>
  /\ fpc' = "idle"
  /\ fieldIndex' = 0
  /\ pdfX' = 0
  /\ pdfY' = 0
  /\ draws' = <<>>
  /\ result' = None
  /\ downloaded' = FALSE
  /\ thrown' = "none"
  /\ UNCHANGED <<pdfFile, fields, selectedFieldId, formData, templates,
                 movable, localStorage, now, savedRegistry, removedIds,
                 lastUpdate, viewerVars, wrapVars, validation, isMobile,
                 editorVars,
                 labelVars, anchorPage>>

\* What the operator types into the Width input before a fill.
RunWidths == {Some(2), Some(10)}

RunInit ==
  /\ AppInit
  /\ ViewerInit
  /\ EditorInit
  /\ EngineIdle

\* No fill is in flight and the page can be reached, or the editor can.
RunPageReached == PageReached /\ fillJob = None
RunEditorReached == EditorReached /\ fillJob = None

\* The operator loads the document, edits the width of a field, types a
\* value and asks for the filled document; the fill runs to its end.
RunNext ==
  \/ LoadPdf
  \/ FormBuilderEffect
  \/ \E k \in DOMAIN fields : RunPageReached /\ HandleFieldEdit(k)
  \/ \E input \in RunWidths : RunEditorReached /\ EditWidth(input)
  \/ RunEditorReached /\ HandleFieldSave
  \/ \E id \in Ids(fields) : RunPageReached /\ HandleFormDataChange(id, TxtAbc)
  \/ RunPageReached /\ HandleFillAndDownload
  \/ FillBegins
  \/ FillNext
  \/ FillReturns

SpecRun == RunInit /\ [][RunNext]_vars

\* The call of fillAndDownloadPDF runs on: it starts, every step of fillPDF
\* that can be taken is taken, and its result is handled.
FairSpecRun ==
  /\ SpecRun
  /\ WF_vars(FillBegins)
  /\ WF_vars(FillNext)
  /\ WF_vars(FillReturns)

\* C19: every fill that has started ends, and the in-progress flag is then
\* clear.
C19_EveryFillEnds == (fillJob # None) ~> (fillJob = None /\ ~isProcessing)

\* ------------------------------------------------- the page of a new field
\* C30: the field a create gesture adds carries the number of the page that
\* was displayed when the first corner was placed, also when the page
\* controls turned the page before the second corner.
C30_FieldOnAnchorPage ==
  [][\A p \in ClickPoints :
       ((HandlePageClick(p) \/ HandleTouchEnd(p)) /\ dragStart # None /\ dragStart' = None)
         => fields'[Len(fields')].pageNumber = anchorPage[1]]_vars

\* ------------------------------------------------- the lines of a field
\* The draws the loop over the lines has just added.
NewDraws == SubSeq(draws', Len(draws) + 1, Len(draws'))

\* C31: for a field that is drawn there is one drawText call per line that
\* wrapText returned, in the order of the lines; the first is one font size
\* below the field's top edge and each next one 1.2 font sizes lower (y in
\* tenths), whether or not it lies below the field's bottom edge.
C31_OneDrawPerLine ==
  [][DrawLines =>
       LET field == fields[fieldIndex]
           top == (pages[field.pageNumber] - field.y - fontSize) * 10
       IN  /\ SubSeq(draws', 1, Len(draws)) = draws
           /\ Len(NewDraws) = Len(allLines)
           /\ \A k \in DOMAIN allLines :
                /\ NewDraws[k].text = Trim(allLines[k])
                /\ NewDraws[k].y = top - (k - 1) * 12 * fontSize
                /\ NewDraws[k].field = fieldIndex]_vars

\* The fill has returned with a field of three lines drawn; its last line
\* lies below the field's bottom edge.
C31_Witness ==
  /\ fpc = "done"
  /\ result # None /\ result[1].success
  /\ \E i \in DOMAIN fields :
       LET mine == SelectSeq(draws, LAMBDA d : d.field = i)
           bottom == (pages[fields[i].pageNumber] - fields[i].y - fields[i].height) * 10
       IN  /\ fields[i].pageNumber \in DOMAIN pages
           /\ Len(mine) = 3
           /\ mine[1].y >= bottom
           /\ mine[3].y < bottom

\* field.multiline is true.
IsMultiline(field) == field.multiline = Some(TRUE)

\* The drawText calls made for the i-th field.
DrawsFor(i) == SelectSeq(draws, LAMBDA d : d.field = i)

\* The text box of the draw (from its baseline y one font size up, in
\* tenths) leaves as much of the field below it as above it, to one unit.
Centred(d, field) ==
  LET bottom == (pages[d.page] - field.y - field.height) * 10
      below == d.y - bottom
      above == bottom + field.height * 10 - (d.y + d.size * 10)
  IN  Abs(below - above) <= 10

\* C32: a field that is not multiline is drawn with one drawText call, and
\* that call is centred between the field's top and bottom edge.
C32_SingleLineCentred ==
  \A i \in DOMAIN fields :
    (~IsMultiline(fields[i]) /\ DrawsFor(i) # <<>>) =>
      /\ Len(DrawsFor(i)) = 1
      /\ Centred(DrawsFor(i)[1], fields[i])

\* ------------------------------------------------- what wrapText returns
\* The characters of s that are not spaces.
Squeeze(s) == SelectSeq(s, LAMBDA c : c # SP)

\* The lines one after the other.
RECURSIVE Concat(_)
Concat(lines) == IF lines = <<>> THEN <<>> ELSE Head(lines) \o Concat(Tail(lines))

\* The lines can be dealt to the paragraphs in order: the first lines hold
\* the words of the first paragraph, the next ones those of the second, ...
RECURSIVE DealtInOrder(_, _)
DealtInOrder(lines, paras) ==
  IF paras = <<>>
    THEN lines = <<>>
    ELSE \E k \in 0..Len(lines) :
           /\ Squeeze(Concat(SubSeq(lines, 1, k))) = Squeeze(Head(paras))
           /\ DealtInOrder(SubSeq(lines, k + 1, Len(lines)), Tail(paras))

\* The pieces of s between its line breaks, computed from the positions of
\* the line breaks.
Breaks(s) == {i \in DOMAIN s : s[i] = NL}

RECURSIVE PiecesFrom(_, _)
PiecesFrom(s, from) ==
  LET later == {i \in Breaks(s) : i >= from}
  IN  IF later = {}
        THEN <<SubSeq(s, from, Len(s))>>
        ELSE LET b == CHOOSE i \in later : \A j \in later : i <= j
             IN  <<SubSeq(s, from, b - 1)>> \o PiecesFrom(s, b + 1)

\* C33: when wrapText has returned, no line holds a line break, no line is
\* the empty string, and the lines hold the words of the paragraphs of the
\* text, paragraph after paragraph; a paragraph without words has no line.
C33_LineBreaksAreBoundaries ==
  wpc = "done" =>
    /\ \A k \in DOMAIN allLines : allLines[k] # <<>> /\ Breaks(allLines[k]) = {}
    /\ DealtInOrder(allLines, PiecesFrom(text, 1))

\* wrapText has returned two lines for a text of three paragraphs, the
\* second of them empty.
C33_Witness ==
  /\ wpc = "done"
  /\ Len(PiecesFrom(text, 1)) = 3
  /\ PiecesFrom(text, 1)[2] = <<>>
  /\ Len(allLines) = 2
  /\ allLines[1] = PiecesFrom(text, 1)[1]
  /\ allLines[2] = PiecesFrom(text, 1)[3]

\* C34: for maxWidth > 0, the characters of the returned lines that are not
\* spaces are, line after line, the characters of the text that are neither
\* spaces nor line breaks.
C34_NoCharacterLost ==
  (wpc = "done" /\ maxWidth > 0) =>
    Squeeze(Concat(allLines)) = SelectSeq(text, LAMBDA c : ~IsWhite(c))

\* wrapText has returned, for a maxWidth > 0, a text of two words without a
\* line break in three lines or more: one of the words was split.
C34_Witness ==
  /\ wpc = "done"
  /\ maxWidth > 0
  /\ Breaks(text) = {}
  /\ Len(SelectSeq(Split(text, SP), LAMBDA w : w # <<>>)) = 2
  /\ Len(allLines) >= 3

\* ------------------------------------------------- the loop over the fields
\* C35: for a field of width > 0 with a value that is not blank, on a page
\* of the document, the pass of the fill loop ends: wrapText, called with
\* field.width - 4, returns and the loop goes on to the next field.
C35_FieldPassEnds ==
  (fpc = "wrap" /\ fields[fieldIndex].width > 0) ~> (fpc = "field")

\* ------------------------------------------------- the locked page
\* C36: while edit mode is off no event changes the field registry.
C36_LockedRegistryUnchanged == [][~movable => fields' = fields]_vars

\* ------------------------------------------------- leaving add-mode
\* C37: while add-mode is off there is no first corner and no preview field.
C37_NoAnchorOutsideAddMode == ~isAddingField => (dragStart = None /\ newField = None)

\* ------------------------------------------------- the selected field
\* The operator places fields, selects them on the page, deletes them, and
\* saves and loads a template.
SelectNext ==
  \/ Tick
  \/ LoadPdf
  \/ MovableToggle
  \/ ToggleAddField
  \/ \E p \in RegistryClicks : HandlePageClick(p)
  \/ \E id \in Ids(fields) : HandleFieldClick(id)
  \/ \E id \in Ids(fields) : HandleFieldDelete(id)
  \/ Len(templates) = 0 /\ HandleTemplateSave
  \/ \E k \in DOMAIN templates : HandleTemplateLoad(k)

SpecSelect == RegistryInit /\ [][SelectNext]_vars

\* C38: the selected field id is null or the id of a field of the registry,
\* and the field a completed create gesture adds is the selected one.
C38_SelectionInRegistry ==
  /\ [](selectedFieldId = Null \/ selectedFieldId \in Ids(fields))
  /\ [][\A p \in RegistryClicks :
          (HandlePageClick(p) /\ dragStart # None) =>
            /\ Len(fields') = Len(fields) + 1
            /\ selectedFieldId' = fields'[Len(fields')].id]_vars

\* A created field is selected after another field was deleted, and the
\* registry has lost a field that was selected before.
C38_Witness ==
  /\ Len(fields) > 0
  /\ selectedFieldId = fields[Len(fields)].id
  /\ selectedFieldId \notin Ids(staticFields)
  /\ removedIds # {}
  /\ Len(templates) > 0

\* ------------------------------------------------- the toolbar's dialog
\* FloatingToolbar.handleFieldEdit, from the gear button of the k-th field of
\* the toolbar's list; the dialog keeps the field as it is now.
ToolbarFieldEdit(k) == HandleFieldEdit(k)

\* FloatingToolbar.handleFieldSave, from the dialog's Save Changes button.
ToolbarFieldSave == HandleFieldSave

\* The dialog's Cancel button: setShowFieldEditor(false).
ToolbarFieldCancel ==
  /\ Rendered
  /\ showFieldEditor
  /\ showFieldEditor' = FALSE
  /\ UNCHANGED <<editingField, effectDeps, appVars, viewerVars, engineVars,
                 isMobile, labelVars, anchorPage>>

\* The selected field is less than MaxKeyed away from its first place.
NearFirstPlace ==
  /\ FindField(fields, selectedFieldId) # None
  /\ LET f == FindField(fields, selectedFieldId)[1]
         g == FindField(staticFields, selectedFieldId)[1]
     IN  Abs(f.x - g.x) + Abs(f.y - g.y) < MaxKeyed

\* The operator selects a field in the toolbar's list, opens the dialog on
\* it, edits label and type, saves or cancels; the arrow keys reach the
\* document's listener whenever the focus is not in an input.
ToolbarNext ==
  \/ LoadPdf
  \/ MovableToggle
  \/ \E id \in Ids(fields) : HandleFieldSelect(id)
  \/ \E k \in DOMAIN fields : ~showFieldEditor /\ ToolbarFieldEdit(k)
  \/ EditType("date")
  \/ EditLabel("Date")
  \/ ToolbarFieldSave
  \/ ToolbarFieldCancel
  \/ \E key \in ArrowKeys : NearFirstPlace /\ HandleKeyDown(key, FALSE)

SpecToolbar == Init /\ [][ToolbarNext]_vars

\* C39: a save of the toolbar's dialog leaves x, y, width, height and
\* pageNumber of every field as they were immediately before it.
C39_SaveKeepsGeometry ==
  [][ToolbarFieldSave =>
       /\ Len(fields') = Len(fields)
       /\ \A i \in DOMAIN fields :
            /\ fields'[i].x = fields[i].x
            /\ fields'[i].y = fields[i].y
            /\ fields'[i].width = fields[i].width
            /\ fields'[i].height = fields[i].height
            /\ fields'[i].pageNumber = fields[i].pageNumber]_vars

\* ------------------------------------------------- zoom and the viewport check
\* C40: a zoom-out pressed above 0.3 lowers the scale by 0.1, a zoom-in
\* pressed below the viewport's maximum raises it by 0.1, and the check of
\* the viewport that runs after the change finds nothing to correct.
C40_ZoomSettles ==
  [][/\ (ZoomOut /\ scale > 3) => (scale' = scale - 1 /\ ~ScalePending')
     /\ (ZoomIn /\ scale < (IF isMobile THEN 12 ELSE 20)) =>
          (scale' = scale + 1 /\ ~ScalePending')]_vars

================================================================================
